---- MODULE Spec2Model ----
(***************************************************************************)
(* A model of four parts of the opentui core:                              *)
(*   - the UTF-8 width and grapheme engine (utf8.zig): byte strings are    *)
(*     sequences of integers 0..255, byte offsets are 0-based as in the    *)
(*     source, and every scan is computed byte by byte as the source does, *)
(*     16-byte vector chunks included;                                     *)
(*   - the StdinBuffer (stdin-buffer.ts): a byte stream delivered to       *)
(*     process() in arbitrary chunks, with its flush timer;                *)
(*   - the native view wrappers TextBufferView and EditorView and their    *)
(*     destroyed guard;                                                    *)
(*   - the InternalKeyHandler and its two-stage event dispatch.            *)
(* Each part has its own specifications over the shared variables.         *)
(***************************************************************************)
EXTENDS Integers, Sequences, FiniteSets, TLC

VARIABLES
    text,          \* utf8: the byte slice the operation is applied to
    width_method,  \* utf8: "wcwidth" | "unicode" | "no_zwj"
    tab_width,     \* utf8: the tab width given per call
    op,            \* utf8: the operation last applied ("none" before any)
    arg,           \* utf8: the arguments of that call
    res,           \* utf8: its result
    input,         \* stdin: the byte stream the terminal will deliver
    fed,           \* stdin: how many bytes of input have been passed to process()
    buffer,        \* stdin: StdinBuffer.buffer (bytes)
    timeout,       \* stdin: TRUE while the flush timer is armed
    pasteMode,     \* stdin: StdinBuffer.pasteMode
    pasteBuffer,   \* stdin: StdinBuffer.pasteBuffer (bytes)
    events,        \* stdin: the events emitted so far, in order
    fired,         \* stdin: TRUE once the flush timer has fired
    cleared,       \* stdin: TRUE once clear() has been called
    timerTicks,    \* stdin: ticks until the armed flush timer is due
    waited,        \* stdin: ticks since the first of the buffered bytes arrived
    clearOn,       \* stdin: the listener calls clear() on the event of this number (0: never)
    view,          \* view: the fields of the TextBufferView or EditorView object
    viewcall,      \* view: the member last used on it and how that ended
    listeners,     \* key: EventEmitter listeners per event, in registration order
    renderableHandlers, \* key: InternalKeyHandler.renderableHandlers per event
    registered,    \* key: how many handlers have been registered so far
    dispatch,      \* key: what the last processInput / processPaste did
    registrar,     \* key: id of the handler that calls onInternal while it runs, 0 for none
    widget,        \* input: the fields of the InputRenderable and its last call
    signals        \* input: the events the last call on the InputRenderable emitted

utf8vars == <<text, width_method, tab_width, op, arg, res>>
stdinvars == <<input, fed, buffer, timeout, pasteMode, pasteBuffer, events, fired, cleared,
               timerTicks, waited, clearOn>>
viewvars == <<view, viewcall>>
keyvars == <<listeners, renderableHandlers, registered, dispatch, registrar>>
inputvars == <<widget, signals>>
vars == <<text, width_method, tab_width, op, arg, res,
          input, fed, buffer, timeout, pasteMode, pasteBuffer, events, fired, cleared,
          timerTicks, waited, clearOn,
          view, viewcall, listeners, renderableHandlers, registered, dispatch, registrar, widget, signals>>

(***************************************************************************)
(* Bounds of the model.                                                    *)
(***************************************************************************)
MaxCps == 3        \* codepoints per generated text (after the padding)
MaxCols == 4       \* largest max_columns passed to the width queries
TimeoutTicks == 2  \* StdinBufferOptions.timeout, in clock ticks
MaxWait == 4       \* the clock stops once buffered bytes have waited this long
MaxEmptyData == 1  \* empty data events after which no empty chunk is passed any more
MaxHandlers == 2   \* handlers registered on one InternalKeyHandler

(***************************************************************************)
(* Program constants.                                                      *)
(***************************************************************************)
VectorLen == 16
ZWJ == 8205
VS16 == 65039
ReplacementChar == 65533
MaxCodepoint == 1114111
ESC == 27

RECURSIVE Flatten(_)
Flatten(ss) == IF ss = <<>> THEN <<>> ELSE Head(ss) \o Flatten(Tail(ss))

(***************************************************************************)
(* UTF-8 encoding of a codepoint (what the text generator uses to build    *)
(* valid UTF-8 inputs).                                                    *)
(***************************************************************************)
EncodeUtf8(cp) ==
    IF cp < 128 THEN <<cp>>
    ELSE IF cp < 2048 THEN <<192 + (cp \div 64), 128 + (cp % 64)>>
    ELSE IF cp < 65536 THEN
        <<224 + (cp \div 4096), 128 + ((cp \div 64) % 64), 128 + (cp % 64)>>
    ELSE <<240 + (cp \div 262144), 128 + ((cp \div 4096) % 64),
           128 + ((cp \div 64) % 64), 128 + (cp % 64)>>

EncodeAll(cps) == Flatten([i \in 1..Len(cps) |-> EncodeUtf8(cps[i])])

ByteAt(t, pos) == t[pos + 1]

(***************************************************************************)
(* utf8.zig                                                                *)
(***************************************************************************)
IsAsciiOnly(t) ==
    /\ Len(t) # 0
    /\ \A i \in 1..Len(t) : ~(t[i] < 32 \/ t[i] > 126)

DecodeUtf8Unchecked(t, pos) ==
    LET b0 == ByteAt(t, pos)
        n  == Len(t)
    IN  IF b0 < 128 THEN [cp |-> b0, len |-> 1]
        ELSE IF pos + 1 >= n THEN [cp |-> ReplacementChar, len |-> 1]
        ELSE IF b0 \div 32 = 6 THEN
            [cp |-> (b0 % 32) * 64 + (ByteAt(t, pos + 1) % 64), len |-> 2]
        ELSE IF pos + 2 >= n THEN [cp |-> ReplacementChar, len |-> 1]
        ELSE IF b0 \div 16 = 14 THEN
            [cp |-> (b0 % 16) * 4096 + (ByteAt(t, pos + 1) % 64) * 64
                    + (ByteAt(t, pos + 2) % 64), len |-> 3]
        ELSE IF pos + 3 >= n THEN [cp |-> ReplacementChar, len |-> 1]
        ELSE [cp |-> (b0 % 8) * 262144 + (ByteAt(t, pos + 1) % 64) * 4096
                     + (ByteAt(t, pos + 2) % 64) * 64 + (ByteAt(t, pos + 3) % 64),
              len |-> 4]

InRange(cp, lo, hi) == cp >= lo /\ cp <= hi

\* uucode general_category: the nonspacing marks (Mn) of the tables
GeneralCategoryIsMark(cp) ==
    \/ InRange(cp, 768, 879)          \* combining diacritical marks
    \/ cp = 2381                      \* Devanagari virama
    \/ InRange(cp, 65024, 65039)      \* variation selectors
    \/ InRange(cp, 917760, 917999)    \* variation selectors supplement

\* uucode east_asian_width: wide or fullwidth
EastAsianWide(cp) ==
    \/ InRange(cp, 4352, 4447)        \* Hangul Jamo leads
    \/ InRange(cp, 11904, 42191)      \* CJK radicals .. Yi
    \/ InRange(cp, 44032, 55203)      \* Hangul syllables
    \/ InRange(cp, 63744, 64255)      \* CJK compatibility ideographs
    \/ InRange(cp, 65281, 65376)      \* fullwidth forms
    \/ InRange(cp, 127744, 128591)    \* pictographs and emoticons
    \/ InRange(cp, 131072, 262141)    \* supplementary ideographic planes

ExplicitWideRanges ==
    { <<126976, 127019>>, <<127024, 127123>>, <<127136, 127150>>, <<127153, 127167>>,
      <<127169, 127183>>, <<127185, 127221>>, <<8986, 8986>>, <<8987, 8987>>,
      <<9001, 9001>>, <<9002, 9002>>, <<9193, 9196>>, <<9200, 9200>>, <<9203, 9203>>,
      <<9725, 9726>>, <<9748, 9749>>, <<9762, 9762>>, <<9763, 9763>>, <<9776, 9783>>,
      <<9800, 9811>>, <<9855, 9855>>, <<9875, 9875>>, <<9883, 9883>>, <<9888, 9888>>,
      <<9889, 9889>>, <<9898, 9899>>, <<9917, 9918>>, <<9924, 9925>>, <<9934, 9934>>,
      <<9937, 9937>>, <<9940, 9940>>, <<9962, 9962>>, <<9970, 9970>>, <<9971, 9971>>,
      <<9973, 9973>>, <<9978, 9978>>, <<9981, 9981>>, <<8252, 8252>>, <<8265, 8265>>,
      <<9989, 9989>>, <<9994, 9995>>, <<10024, 10024>>, <<10060, 10060>>,
      <<10062, 10062>>, <<10067, 10069>>, <<10071, 10071>>, <<10080, 10087>>,
      <<10133, 10135>>, <<10160, 10160>>, <<10175, 10175>>, <<11035, 11036>>,
      <<11088, 11088>>, <<11093, 11093>>, <<127744, 127776>>, <<127789, 127797>>,
      <<127799, 127868>>, <<127870, 127891>>, <<127904, 127946>>, <<127951, 127955>>,
      <<127968, 127984>>, <<127988, 127988>>, <<127992, 127999>>, <<128000, 128062>>,
      <<128064, 128064>>, <<128066, 128252>>, <<128255, 128709>>, <<128716, 128716>>,
      <<128720, 128722>>, <<128725, 128727>>, <<128732, 128735>>, <<128747, 128748>>,
      <<128756, 128764>>, <<128768, 128883>>, <<128896, 128984>>, <<128992, 129003>>,
      <<129024, 129035>>, <<129040, 129095>>, <<129104, 129113>>, <<129120, 129159>>,
      <<129168, 129197>>, <<129200, 129201>>, <<129292, 129338>>, <<129340, 129349>>,
      <<129351, 129619>>, <<129632, 129645>>, <<129648, 129652>>, <<129656, 129660>>,
      <<129664, 129670>>, <<129680, 129708>>, <<129712, 129722>>, <<129728, 129733>>,
      <<129744, 129753>>, <<129760, 129767>>, <<129776, 129784>> }

EawToWidth(cp) ==
    IF cp = 0 THEN 0
    ELSE IF cp < 32 \/ (cp >= 127 /\ cp < 160) THEN -1
    ELSE IF GeneralCategoryIsMark(cp) THEN 0
    ELSE IF cp \in {8203, 8204, 8205, 8288, 847, 65279} THEN 0
    ELSE IF InRange(cp, 6155, 6157) \/ InRange(cp, 65024, 65039)
            \/ InRange(cp, 917760, 917999) THEN 0
    ELSE IF EastAsianWide(cp) THEN 2
    ELSE IF \E r \in ExplicitWideRanges : InRange(cp, r[1], r[2]) THEN 2
    ELSE 1

AsciiCharWidth(byte, tw) ==
    IF byte = 9 THEN tw
    ELSE IF byte >= 32 /\ byte <= 126 THEN 1
    ELSE 0

CharWidth(byte, codepoint, tw) ==
    IF byte = 9 THEN tw
    ELSE IF byte < 128 /\ byte >= 32 /\ byte <= 126 THEN 1
    ELSE IF byte >= 128 THEN
        (IF EawToWidth(codepoint) > 0 THEN EawToWidth(codepoint) ELSE 0)
    ELSE 0

IsValidCodepoint(cp) == cp # ReplacementChar /\ cp <= MaxCodepoint

(***************************************************************************)
(* uucode.grapheme.isBreak: UAX #29 extended grapheme cluster boundaries   *)
(* with the per-stream break state (regional-indicator pairing and         *)
(* Extended_Pictographic + ZWJ joining).                                   *)
(***************************************************************************)
GraphemeBreakProperty(cp) ==
    IF cp = 13 THEN "CR"
    ELSE IF cp = 10 THEN "LF"
    ELSE IF cp < 32 \/ InRange(cp, 127, 159) \/ cp = 8203 THEN "Control"
    ELSE IF cp = ZWJ THEN "ZWJ"
    ELSE IF GeneralCategoryIsMark(cp) \/ cp = 8204 \/ InRange(cp, 127995, 127999)
        THEN "Extend"
    ELSE IF InRange(cp, 127462, 127487) THEN "Regional_Indicator"
    ELSE IF InRange(cp, 127744, 127994) \/ InRange(cp, 128000, 128591)
            \/ InRange(cp, 128640, 128767) \/ InRange(cp, 129280, 129535)
        THEN "Extended_Pictographic"
    ELSE "Other"

GraphemeIsBreak(cp1, cp2, state) ==
    LET g1 == GraphemeBreakProperty(cp1)
        g2 == GraphemeBreakProperty(cp2)
        ctl == {"CR", "LF", "Control"}
    IN  IF g1 = "CR" /\ g2 = "LF" THEN [brk |-> FALSE, state |-> "default"]
        ELSE IF g1 \in ctl \/ g2 \in ctl THEN [brk |-> TRUE, state |-> "default"]
        ELSE IF g2 \in {"Extend", "ZWJ"} THEN
            [brk |-> FALSE,
             state |-> IF g1 = "Extended_Pictographic"
                          \/ (state = "extended_pictographic" /\ g1 = "Extend")
                       THEN "extended_pictographic" ELSE "default"]
        ELSE IF g1 = "ZWJ" /\ g2 = "Extended_Pictographic"
                /\ state = "extended_pictographic"
            THEN [brk |-> FALSE, state |-> "default"]
        ELSE IF g1 = "Regional_Indicator" /\ g2 = "Regional_Indicator"
                /\ state # "regional_indicator"
            THEN [brk |-> FALSE, state |-> "regional_indicator"]
        ELSE [brk |-> TRUE, state |-> "default"]

\* prev_cp = -1 stands for null
IsGraphemeBreak(prev_cp, curr_cp, break_state, method) ==
    IF method = "wcwidth" THEN
        IF prev_cp = -1 THEN [brk |-> TRUE, state |-> break_state]
        ELSE IF ~IsValidCodepoint(curr_cp) THEN [brk |-> TRUE, state |-> break_state]
        ELSE IF ~IsValidCodepoint(prev_cp) THEN [brk |-> TRUE, state |-> break_state]
        ELSE GraphemeIsBreak(prev_cp, curr_cp, break_state)
    ELSE IF ~IsValidCodepoint(curr_cp) THEN [brk |-> TRUE, state |-> break_state]
    ELSE IF method = "no_zwj" /\ prev_cp = ZWJ THEN [brk |-> TRUE, state |-> "default"]
    ELSE IF prev_cp # -1 THEN
        IF ~IsValidCodepoint(prev_cp) THEN [brk |-> TRUE, state |-> break_state]
        ELSE GraphemeIsBreak(prev_cp, curr_cp, break_state)
    ELSE [brk |-> TRUE, state |-> break_state]

(***************************************************************************)
(* GraphemeWidthState                                                      *)
(***************************************************************************)
IsRegionalIndicator(cp) == cp >= 127462 /\ cp <= 127487

IsDevanagariBase(cp) == InRange(cp, 2325, 2361) \/ InRange(cp, 2392, 2399)

GraphemeWidthStateInit(first_cp, first_width, method) ==
    [width |-> first_width,
     has_width |-> (first_width > 0),
     is_regional_indicator_pair |-> IsRegionalIndicator(first_cp),
     has_vs16 |-> FALSE,
     has_indic_virama |-> FALSE,
     width_method |-> method]

AddCodepoint(self, cp, cp_width) ==
    IF self.width_method = "wcwidth" THEN
        IF EawToWidth(cp) > 0
        THEN [self EXCEPT !.width = self.width + EawToWidth(cp), !.has_width = TRUE]
        ELSE self
    ELSE IF cp = VS16 THEN
        [self EXCEPT !.has_vs16 = TRUE,
                     !.width = IF self.has_width /\ self.width = 1 THEN 2 ELSE self.width]
    ELSE IF GeneralCategoryIsMark(cp) THEN [self EXCEPT !.has_indic_virama = TRUE]
    ELSE IF self.is_regional_indicator_pair /\ IsRegionalIndicator(cp) THEN
        [self EXCEPT !.width = self.width + cp_width, !.has_width = TRUE]
    ELSE IF ~self.has_width /\ cp_width > 0 THEN
        [self EXCEPT !.width = cp_width, !.has_width = TRUE]
    ELSE IF self.has_width /\ self.has_indic_virama /\ IsDevanagariBase(cp) /\ cp_width > 0
    THEN
        [self EXCEPT !.width = IF cp # 2352 THEN self.width + cp_width ELSE self.width,
                     !.has_indic_virama = FALSE]
    ELSE self

(***************************************************************************)
(* ClusterState and the two boundary handlers.  The record carries one     *)
(* extra field, stop, for the handlers' "return true".                     *)
(***************************************************************************)
ClusterStateInit(method) ==
    [columns_used |-> 0,
     grapheme_count |-> 0,
     cluster_width |-> 0,
     cluster_start |-> 0,
     prev_cp |-> -1,
     break_state |-> "default",
     width_state |-> GraphemeWidthStateInit(0, 0, method),
     width_method |-> method,
     cluster_started |-> FALSE,
     stop |-> FALSE]

\* variant of handleClusterForWrap that stops only after the limit is crossed
HandleClusterForWrapLate(state, is_break, new_cluster_start, max_columns) ==
    IF ~is_break THEN state
    ELSE IF state.prev_cp # -1 /\ state.columns_used > max_columns
    THEN [state EXCEPT !.stop = TRUE]
    ELSE [state EXCEPT
            !.columns_used = IF state.prev_cp # -1
                             THEN state.columns_used + state.cluster_width
                             ELSE state.columns_used,
            !.grapheme_count = IF state.prev_cp # -1
                               THEN state.grapheme_count + 1
                               ELSE state.grapheme_count,
            !.cluster_width = 0,
            !.cluster_start = new_cluster_start,
            !.cluster_started = FALSE]

HandleClusterForWrap(state, is_break, new_cluster_start, max_columns) ==
    IF ~is_break THEN state
    ELSE IF state.prev_cp # -1 /\ state.columns_used + state.cluster_width > max_columns
    THEN [state EXCEPT !.stop = TRUE]
    ELSE [state EXCEPT
            !.columns_used = IF state.prev_cp # -1
                             THEN state.columns_used + state.cluster_width
                             ELSE state.columns_used,
            !.grapheme_count = IF state.prev_cp # -1
                               THEN state.grapheme_count + 1
                               ELSE state.grapheme_count,
            !.cluster_width = 0,
            !.cluster_start = new_cluster_start,
            !.cluster_started = FALSE]

HandleClusterForPos(state, is_break, new_cluster_start, max_columns, include_start_before) ==
    LET cluster_start_col == state.columns_used
        cluster_end_col == state.columns_used + state.cluster_width
        reset(s) == [s EXCEPT !.cluster_width = 0,
                              !.cluster_start = new_cluster_start,
                              !.cluster_started = FALSE]
    IN  IF ~is_break THEN state
        ELSE IF state.prev_cp = -1 THEN reset(state)
        ELSE IF include_start_before THEN
            IF cluster_start_col >= max_columns THEN [state EXCEPT !.stop = TRUE]
            ELSE reset([state EXCEPT !.columns_used = cluster_end_col,
                                     !.grapheme_count = state.grapheme_count + 1])
        ELSE
            IF cluster_end_col > max_columns THEN [state EXCEPT !.stop = TRUE]
            ELSE reset([state EXCEPT !.columns_used = cluster_end_col])

\* q: [kind: "wrap" | "pos", max_columns, tab_width, include_start_before]
HandleCluster(state, is_break, new_cluster_start, q) ==
    IF q.kind = "wrap"
    THEN HandleClusterForWrap(state, is_break, new_cluster_start, q.max_columns)
    ELSE HandleClusterForPos(state, is_break, new_cluster_start, q.max_columns,
                             q.include_start_before)

\* the codepoint at pos as the scans read it: ASCII directly, else decoded
CodepointAt(t, pos) ==
    IF ByteAt(t, pos) < 128 THEN [cp |-> ByteAt(t, pos), len |-> 1]
    ELSE DecodeUtf8Unchecked(t, pos)

\* the body shared by the three loops of findWrapPosByWidthUnicode and of
\* findPosByWidthUnicode: one codepoint at byte p
ScanStep(state, t, p, ascii_chunk, q) ==
    LET b0 == ByteAt(t, p)
        curr_cp == CodepointAt(t, p).cp
        gb == IsGraphemeBreak(state.prev_cp, curr_cp, state.break_state, state.width_method)
        h == HandleCluster([state EXCEPT !.break_state = gb.state], gb.brk, p, q)
        cp_width == IF ascii_chunk THEN AsciiCharWidth(b0, q.tab_width)
                    ELSE CharWidth(b0, curr_cp, q.tab_width)
    IN  IF h.stop THEN h
        ELSE IF ~h.cluster_started THEN
            [h EXCEPT !.width_state = GraphemeWidthStateInit(curr_cp, cp_width, h.width_method),
                      !.cluster_width = cp_width,
                      !.cluster_started = TRUE,
                      !.prev_cp = curr_cp]
        ELSE LET ws == AddCodepoint(h.width_state, curr_cp, cp_width)
             IN  [h EXCEPT !.width_state = ws, !.cluster_width = ws.width,
                           !.prev_cp = curr_cp]

ChunkIsAscii(t, pos) == \A i \in 0..(VectorLen - 1) : ByteAt(t, pos + i) < 128

RECURSIVE ScanAsciiChunk(_, _, _, _, _)
ScanAsciiChunk(state, t, pos, i, q) ==
    IF state.stop \/ i >= VectorLen THEN state
    ELSE ScanAsciiChunk(ScanStep(state, t, pos + i, TRUE, q), t, pos, i + 1, q)

RECURSIVE ScanMixedChunk(_, _, _, _, _)
ScanMixedChunk(state, t, pos, i, q) ==
    IF state.stop \/ ~(i < VectorLen /\ pos + i < Len(t)) THEN [state |-> state, i |-> i]
    ELSE IF pos + i + CodepointAt(t, pos + i).len > Len(t) THEN [state |-> state, i |-> i]
    ELSE ScanMixedChunk(ScanStep(state, t, pos + i, FALSE, q), t, pos,
                        i + CodepointAt(t, pos + i).len, q)

RECURSIVE ScanTail(_, _, _, _)
ScanTail(state, t, pos, q) ==
    IF state.stop \/ pos >= Len(t) THEN state
    ELSE ScanTail(ScanStep(state, t, pos, FALSE, q), t, pos + CodepointAt(t, pos).len, q)

RECURSIVE ScanChunks(_, _, _, _)
ScanChunks(state, t, pos, q) ==
    IF state.stop THEN state
    ELSE IF pos + VectorLen <= Len(t) THEN
        IF ChunkIsAscii(t, pos)
        THEN ScanChunks(ScanAsciiChunk(state, t, pos, 0, q), t, pos + VectorLen, q)
        ELSE LET r == ScanMixedChunk(state, t, pos, 0, q)
             IN  ScanChunks(r.state, t, pos + r.i, q)
    ELSE ScanTail(state, t, pos, q)

ScanResult(byte_offset, state) ==
    [byte_offset |-> byte_offset,
     grapheme_count |-> state.grapheme_count,
     columns_used |-> state.columns_used]

\* variant of the fast path that always takes the whole text
AsciiFastPathWholeText(t, max_columns) ==
    [byte_offset |-> Len(t), grapheme_count |-> Len(t), columns_used |-> Len(t)]

AsciiFastPath(t, max_columns) ==
    IF max_columns >= Len(t)
    THEN [byte_offset |-> Len(t), grapheme_count |-> Len(t), columns_used |-> Len(t)]
    ELSE [byte_offset |-> max_columns, grapheme_count |-> max_columns,
          columns_used |-> max_columns]

ZeroResult == [byte_offset |-> 0, grapheme_count |-> 0, columns_used |-> 0]

\* what findWrapPosByWidthUnicode returns once its loops have left the given state
WrapFinalCluster(t, state, max_columns) ==
    IF state.stop THEN ScanResult(state.cluster_start, state)
    ELSE IF state.prev_cp # -1 /\ state.cluster_width > 0 THEN
        IF state.columns_used + state.cluster_width > max_columns
        THEN ScanResult(state.cluster_start, state)
        ELSE ScanResult(Len(t),
               [state EXCEPT !.columns_used = state.columns_used + state.cluster_width,
                             !.grapheme_count = state.grapheme_count + 1])
    ELSE ScanResult(Len(t), state)

FindWrapPosByWidthUnicode(t, max_columns, tw, isASCIIOnly, method) ==
    IF Len(t) = 0 \/ max_columns = 0 THEN ZeroResult
    ELSE IF isASCIIOnly THEN AsciiFastPath(t, max_columns)
    ELSE WrapFinalCluster(t,
            ScanChunks(ClusterStateInit(method), t, 0,
                       [kind |-> "wrap", max_columns |-> max_columns, tab_width |-> tw,
                        include_start_before |-> FALSE]),
            max_columns)

\* the loop of findWrapPosByWidthWCWidth from byte pos on
RECURSIVE WrapWCWidthLoop(_, _, _, _, _, _)
WrapWCWidthLoop(t, pos, columns_used, codepoint_count, max_columns, tw) ==
    LET here == [byte_offset |-> pos, grapheme_count |-> codepoint_count,
                 columns_used |-> columns_used]
    IN  IF pos >= Len(t) THEN [here EXCEPT !.byte_offset = Len(t)]
        ELSE LET b0 == ByteAt(t, pos)
                 c == CodepointAt(t, pos)
                 cp_width == CharWidth(b0, c.cp, tw)
             IN  IF pos + c.len > Len(t) THEN [here EXCEPT !.byte_offset = Len(t)]
                 ELSE IF columns_used >= max_columns THEN here
                 ELSE IF columns_used + cp_width > max_columns THEN here
                 ELSE WrapWCWidthLoop(t, pos + c.len, columns_used + cp_width,
                                      codepoint_count + 1, max_columns, tw)

FindWrapPosByWidthWCWidth(t, max_columns, tw, isASCIIOnly) ==
    IF Len(t) = 0 \/ max_columns = 0 THEN ZeroResult
    ELSE IF isASCIIOnly THEN AsciiFastPath(t, max_columns)
    ELSE WrapWCWidthLoop(t, 0, 0, 0, max_columns, tw)

\* variant of the dispatch that measures codepoint by codepoint under every method
FindWrapPosByWidthPerCodepoint(t, max_columns, tw, isASCIIOnly, method) ==
    FindWrapPosByWidthWCWidth(t, max_columns, tw, isASCIIOnly)

FindWrapPosByWidth(t, max_columns, tw, isASCIIOnly, method) ==
    IF method = "wcwidth" THEN FindWrapPosByWidthWCWidth(t, max_columns, tw, isASCIIOnly)
    ELSE FindWrapPosByWidthUnicode(t, max_columns, tw, isASCIIOnly, method)

\* what findPosByWidthUnicode returns once its loops have left the given state:
\* the cluster it stopped at, else the "Final cluster" block
PosFinalCluster(t, state, max_columns, include_start_before) ==
    IF state.stop THEN ScanResult(state.cluster_start, state)
    ELSE IF state.prev_cp # -1 /\ state.cluster_width > 0 THEN
        IF state.columns_used >= max_columns
        THEN ScanResult(state.cluster_start, state)
        ELSE ScanResult(Len(t),
               [state EXCEPT !.columns_used = state.columns_used + state.cluster_width,
                             !.grapheme_count = IF include_start_before
                                                THEN state.grapheme_count + 1
                                                ELSE state.grapheme_count])
    ELSE ScanResult(Len(t), state)

FindPosByWidthUnicode(t, max_columns, tw, isASCIIOnly, include_start_before, method) ==
    IF Len(t) = 0 \/ max_columns = 0 THEN ZeroResult
    ELSE IF isASCIIOnly THEN AsciiFastPath(t, max_columns)
    ELSE PosFinalCluster(t,
            ScanChunks(ClusterStateInit(method), t, 0,
                       [kind |-> "pos", max_columns |-> max_columns, tab_width |-> tw,
                        include_start_before |-> include_start_before]),
            max_columns, include_start_before)

RECURSIVE PosWCWidthLoop(_, _, _, _, _, _, _)
PosWCWidthLoop(t, pos, columns_used, codepoint_count, max_columns, tw, include_start_before) ==
    LET here == [byte_offset |-> pos, grapheme_count |-> codepoint_count,
                 columns_used |-> columns_used]
    IN  IF pos >= Len(t) THEN [here EXCEPT !.byte_offset = Len(t)]
        ELSE LET b0 == ByteAt(t, pos)
                 c == CodepointAt(t, pos)
                 cp_width == CharWidth(b0, c.cp, tw)
                 cp_start_col == columns_used
                 cp_end_col == columns_used + cp_width
             IN  IF pos + c.len > Len(t) THEN [here EXCEPT !.byte_offset = Len(t)]
                 ELSE IF include_start_before /\ cp_start_col >= max_columns THEN here
                 ELSE IF ~include_start_before /\ cp_end_col > max_columns THEN here
                 ELSE PosWCWidthLoop(t, pos + c.len, cp_end_col, codepoint_count + 1,
                                     max_columns, tw, include_start_before)

FindPosByWidthWCWidth(t, max_columns, tw, isASCIIOnly, include_start_before) ==
    IF Len(t) = 0 \/ max_columns = 0 THEN ZeroResult
    ELSE IF isASCIIOnly THEN AsciiFastPath(t, max_columns)
    ELSE PosWCWidthLoop(t, 0, 0, 0, max_columns, tw, include_start_before)

FindPosByWidth(t, max_columns, tw, isASCIIOnly, include_start_before, method) ==
    IF method = "wcwidth"
    THEN FindPosByWidthWCWidth(t, max_columns, tw, isASCIIOnly, include_start_before)
    ELSE FindPosByWidthUnicode(t, max_columns, tw, isASCIIOnly, include_start_before, method)

(***************************************************************************)
(* getWidthAt, getPrevGraphemeStart, calculateTextWidth                    *)
(***************************************************************************)
\* the while loop of getWidthAtUnicode from byte pos on
RECURSIVE GetWidthAtLoop(_, _, _, _, _, _, _)
GetWidthAtLoop(t, pos, prev_cp, break_state, state, tw, method) ==
    IF pos >= Len(t) THEN state.width
    ELSE LET b == ByteAt(t, pos)
             curr_cp == IF b < 128 THEN b ELSE DecodeUtf8Unchecked(t, pos).cp
             cp_len == IF b < 128 THEN 1 ELSE DecodeUtf8Unchecked(t, pos).len
             gb == IsGraphemeBreak(prev_cp, curr_cp, break_state, method)
         IN  IF pos + cp_len > Len(t) THEN state.width
             ELSE IF gb.brk THEN state.width
             ELSE GetWidthAtLoop(t, pos + cp_len, curr_cp, gb.state,
                                 AddCodepoint(state, curr_cp, CharWidth(b, curr_cp, tw)),
                                 tw, method)

GetWidthAtUnicode(t, byte_offset, tw, method) ==
    IF byte_offset >= Len(t) THEN 0
    ELSE LET b0 == ByteAt(t, byte_offset)
             dec == DecodeUtf8Unchecked(t, byte_offset)
         IN  IF b0 >= 128 /\ byte_offset + dec.len > Len(t) THEN 1
             ELSE LET first_cp == IF b0 < 128 THEN b0 ELSE dec.cp
                      first_len == IF b0 < 128 THEN 1 ELSE dec.len
                      first_width == CharWidth(b0, first_cp, tw)
                  IN  GetWidthAtLoop(t, byte_offset + first_len, first_cp, "default",
                                     GraphemeWidthStateInit(first_cp, first_width, method),
                                     tw, method)

GetWidthAtWCWidth(t, byte_offset, tw) ==
    IF byte_offset >= Len(t) THEN 0
    ELSE LET b0 == ByteAt(t, byte_offset)
             dec == DecodeUtf8Unchecked(t, byte_offset)
         IN  IF b0 >= 128 /\ byte_offset + dec.len > Len(t) THEN 1
             ELSE CharWidth(b0, IF b0 < 128 THEN b0 ELSE dec.cp, tw)

\* variant that reports the first codepoint's width under every method
GetWidthAtFirstCodepoint(t, byte_offset, tw, method) ==
    GetWidthAtWCWidth(t, byte_offset, tw)

GetWidthAt(t, byte_offset, tw, method) ==
    IF method = "wcwidth" THEN GetWidthAtWCWidth(t, byte_offset, tw)
    ELSE GetWidthAtUnicode(t, byte_offset, tw, method)

\* ?PrevGraphemeResult: some = FALSE stands for null
NoPrevGrapheme == [some |-> FALSE, start_offset |-> 0, width |-> 0]

RECURSIVE PrevWCWidthLoop(_, _, _, _, _)
PrevWCWidthLoop(t, pos, byte_offset, last_result, tw) ==
    IF pos >= byte_offset THEN last_result
    ELSE LET b == ByteAt(t, pos)
             c == CodepointAt(t, pos)
             cp_width == CharWidth(b, c.cp, tw)
         IN  PrevWCWidthLoop(t, pos + c.len, byte_offset,
                 IF cp_width > 0
                 THEN [some |-> TRUE, start_offset |-> pos, width |-> cp_width]
                 ELSE last_result,
                 tw)

GetPrevGraphemeStartWCWidth(t, byte_offset, tw) ==
    IF byte_offset = 0 \/ Len(t) = 0 THEN NoPrevGrapheme
    ELSE IF byte_offset > Len(t) THEN NoPrevGrapheme
    ELSE PrevWCWidthLoop(t, 0, byte_offset, NoPrevGrapheme, tw)

\* the while loop of getPrevGraphemeStartUnicode; yields the two tracked starts
RECURSIVE PrevUnicodeLoop(_, _, _, _, _, _, _)
PrevUnicodeLoop(t, pos, byte_offset, prev_cp, break_state, prev_grapheme_start, second_to_last_grapheme_start) ==
    IF pos >= byte_offset
    THEN [prev_grapheme_start |-> prev_grapheme_start,
          second_to_last_grapheme_start |-> second_to_last_grapheme_start]
    ELSE LET c == CodepointAt(t, pos)
         IN  IF IsValidCodepoint(c.cp)
             THEN LET gb == IF prev_cp # -1
                            THEN IF ~IsValidCodepoint(prev_cp)
                                 THEN [brk |-> TRUE, state |-> break_state]
                                 ELSE GraphemeIsBreak(prev_cp, c.cp, break_state)
                            ELSE [brk |-> TRUE, state |-> break_state]
                  IN  PrevUnicodeLoop(t, pos + c.len, byte_offset, c.cp, gb.state,
                          IF gb.brk THEN pos ELSE prev_grapheme_start,
                          IF gb.brk THEN prev_grapheme_start
                          ELSE second_to_last_grapheme_start)
             ELSE PrevUnicodeLoop(t, pos + c.len, byte_offset, prev_cp, break_state,
                                  prev_grapheme_start, second_to_last_grapheme_start)

GetPrevGraphemeStartUnicode(t, byte_offset, tw, method) ==
    IF byte_offset = 0 \/ Len(t) = 0 THEN NoPrevGrapheme
    ELSE IF byte_offset > Len(t) THEN NoPrevGrapheme
    ELSE LET r == PrevUnicodeLoop(t, 0, byte_offset, -1, "default", 0, 0)
             start_offset == IF r.prev_grapheme_start < byte_offset
                             THEN r.prev_grapheme_start
                             ELSE r.second_to_last_grapheme_start
         IN  [some |-> TRUE, start_offset |-> start_offset,
              width |-> GetWidthAt(t, start_offset, tw, method)]

GetPrevGraphemeStart(t, byte_offset, tw, method) ==
    IF method = "wcwidth" THEN GetPrevGraphemeStartWCWidth(t, byte_offset, tw)
    ELSE GetPrevGraphemeStartUnicode(t, byte_offset, tw, method)

\* the while loop of calculateTextWidthUnicode; state.width is read only after init
RECURSIVE CalcUnicodeLoop(_, _, _, _, _, _, _, _)
CalcUnicodeLoop(t, pos, total_width, prev_cp, break_state, state, tw, method) ==
    IF pos >= Len(t)
    THEN IF prev_cp # -1 THEN total_width + state.width ELSE total_width
    ELSE LET b0 == ByteAt(t, pos)
             c == CodepointAt(t, pos)
             gb == IsGraphemeBreak(prev_cp, c.cp, break_state, method)
             cp_width == CharWidth(b0, c.cp, tw)
         IN  IF gb.brk
             THEN CalcUnicodeLoop(t, pos + c.len,
                      IF prev_cp # -1 THEN total_width + state.width ELSE total_width,
                      c.cp, gb.state, GraphemeWidthStateInit(c.cp, cp_width, method),
                      tw, method)
             ELSE CalcUnicodeLoop(t, pos + c.len, total_width, c.cp, gb.state,
                      AddCodepoint(state, c.cp, cp_width), tw, method)

CalculateTextWidthUnicode(t, tw, isASCIIOnly, method) ==
    IF Len(t) = 0 THEN 0
    ELSE IF isASCIIOnly THEN Len(t)
    ELSE CalcUnicodeLoop(t, 0, 0, -1, "default", GraphemeWidthStateInit(0, 0, method),
                         tw, method)

RECURSIVE CalcWCWidthLoop(_, _, _, _)
CalcWCWidthLoop(t, pos, total_width, tw) ==
    IF pos >= Len(t) THEN total_width
    ELSE LET c == CodepointAt(t, pos)
         IN  CalcWCWidthLoop(t, pos + c.len,
                             total_width + CharWidth(ByteAt(t, pos), c.cp, tw), tw)

CalculateTextWidthWCWidth(t, tw, isASCIIOnly) ==
    IF Len(t) = 0 THEN 0
    ELSE IF isASCIIOnly THEN Len(t)
    ELSE CalcWCWidthLoop(t, 0, 0, tw)

\* variant that sums codepoint widths under every method
CalculateTextWidthPerCodepoint(t, tw, isASCIIOnly, method) ==
    CalculateTextWidthWCWidth(t, tw, isASCIIOnly)

CalculateTextWidth(t, tw, isASCIIOnly, method) ==
    IF method = "wcwidth" THEN CalculateTextWidthWCWidth(t, tw, isASCIIOnly)
    ELSE CalculateTextWidthUnicode(t, tw, isASCIIOnly, method)

(***************************************************************************)
(* findWrapBreaks                                                          *)
(***************************************************************************)
\* ' ' '\t' '-' '/' '\\' '.' ',' ';' ':' '!' '?' '(' ')' '[' ']' '{' '}'
IsAsciiWrapBreak(b) ==
    b \in {32, 9, 45, 47, 92, 46, 44, 59, 58, 33, 63, 40, 41, 91, 93, 123, 125}

IsUnicodeWrapBreak(cp) ==
    \/ cp \in {160, 5760, 8239, 8287, 12288, 8203, 173, 8208}
    \/ InRange(cp, 8192, 8202)

WrapStateInit == [breaks |-> <<>>, char_offset |-> 0, prev_cp |-> -1,
                  break_state |-> "default"]

\* one codepoint of the slow path or of the tail: the byte at p is the first byte of
\* codepoint cp; is_wrap_break says whether a break is recorded there
WrapStep(st, p, cp, is_wrap_break) ==
    LET gb == IF cp = ReplacementChar \/ cp > MaxCodepoint
              THEN [brk |-> TRUE, state |-> st.break_state]
              ELSE IF st.prev_cp # -1
              THEN IF st.prev_cp = ReplacementChar \/ st.prev_cp > MaxCodepoint
                   THEN [brk |-> TRUE, state |-> st.break_state]
                   ELSE GraphemeIsBreak(st.prev_cp, cp, st.break_state)
              ELSE [brk |-> TRUE, state |-> st.break_state]
    IN  [breaks |-> IF is_wrap_break
                    THEN Append(st.breaks, [byte_offset |-> p, char_offset |-> st.char_offset])
                    ELSE st.breaks,
         char_offset |-> IF gb.brk THEN st.char_offset + 1 ELSE st.char_offset,
         prev_cp |-> cp,
         break_state |-> gb.state]

\* fast path: the breaks of an all-ASCII chunk, lowest bit first
RECURSIVE WrapAsciiChunkBreaks(_, _, _, _)
WrapAsciiChunkBreaks(t, pos, bit_pos, char_offset) ==
    IF bit_pos >= VectorLen THEN <<>>
    ELSE (IF IsAsciiWrapBreak(ByteAt(t, pos + bit_pos))
          THEN <<[byte_offset |-> pos + bit_pos, char_offset |-> char_offset + bit_pos]>>
          ELSE <<>>)
         \o WrapAsciiChunkBreaks(t, pos, bit_pos + 1, char_offset)

\* slow path: the inner loop over a mixed chunk, from index i
RECURSIVE WrapMixedChunk(_, _, _, _)
WrapMixedChunk(st, t, pos, i) ==
    IF i >= VectorLen THEN st
    ELSE LET b0 == ByteAt(t, pos + i)
         IN  IF b0 < 128
             THEN WrapMixedChunk(WrapStep(st, pos + i, b0, IsAsciiWrapBreak(b0)),
                                 t, pos, i + 1)
             ELSE LET dec == DecodeUtf8Unchecked(t, pos + i)
                  IN  IF pos + i + dec.len > Len(t) THEN st
                      ELSE WrapMixedChunk(
                               WrapStep(st, pos + i, dec.cp, IsUnicodeWrapBreak(dec.cp)),
                               t, pos, i + dec.len)

RECURSIVE WrapTail(_, _, _)
WrapTail(st, t, i) ==
    IF i >= Len(t) THEN st
    ELSE LET b0 == ByteAt(t, i)
         IN  IF b0 < 128
             THEN WrapTail(WrapStep(st, i, b0, IsAsciiWrapBreak(b0)), t, i + 1)
             ELSE LET dec == DecodeUtf8Unchecked(t, i)
                  IN  IF i + dec.len > Len(t) THEN st
                      ELSE WrapTail(WrapStep(st, i, dec.cp, IsUnicodeWrapBreak(dec.cp)),
                                    t, i + dec.len)

\* the chunk loop; every pass advances pos by the vector length
RECURSIVE WrapChunks(_, _, _)
WrapChunks(st, t, pos) ==
    IF pos + VectorLen <= Len(t)
    THEN IF ChunkIsAscii(t, pos)
         THEN WrapChunks([st EXCEPT
                             !.breaks = st.breaks
                                 \o WrapAsciiChunkBreaks(t, pos, 0, st.char_offset),
                             !.char_offset = st.char_offset + VectorLen,
                             !.prev_cp = ByteAt(t, pos + VectorLen - 1)],
                         t, pos + VectorLen)
         ELSE WrapChunks(WrapMixedChunk(st, t, pos, 0), t, pos + VectorLen)
    ELSE WrapTail(st, t, pos)

FindWrapBreaks(t, method) == WrapChunks(WrapStateInit, t, 0).breaks

(***************************************************************************)
(* stdin-buffer.ts.  A Buffer is a sequence of bytes; a string is a        *)
(* sequence of UTF-16 code units.                                          *)
(***************************************************************************)
BRACKETED_PASTE_START == <<27, 91, 50, 48, 48, 126>>    \* ESC [ 2 0 0 ~
BRACKETED_PASTE_END == <<27, 91, 50, 48, 49, 126>>      \* ESC [ 2 0 1 ~

StartsWith(s, prefix) ==
    Len(s) >= Len(prefix) /\ SubSeq(s, 1, Len(prefix)) = prefix

EndsWith(s, suffix) ==
    Len(s) >= Len(suffix) /\ SubSeq(s, Len(s) - Len(suffix) + 1, Len(s)) = suffix

\* Buffer.indexOf: 0-based index of the first occurrence, -1 if none
IndexOf(b, pattern) ==
    LET hits == {i \in 0..(Len(b) - Len(pattern)) :
                    SubSeq(b, i + 1, i + Len(pattern)) = pattern}
    IN  IF hits = {} THEN -1 ELSE CHOOSE i \in hits : \A j \in hits : i <= j

IsContinuation(b) == b >= 128 /\ b <= 191

\* the UTF-16 code units of a codepoint
CodeUnits(cp) ==
    IF cp < 65536 THEN <<cp>>
    ELSE <<55296 + ((cp - 65536) \div 1024), 56320 + ((cp - 65536) % 1024)>>

\* Buffer.toString(): UTF-8 decoding in which every maximal ill-formed part becomes
\* one U+FFFD (overlong and surrogate encodings are not told apart here)
RECURSIVE BufferToStringFrom(_, _)
BufferToStringFrom(b, i) ==
    IF i > Len(b) THEN <<>>
    ELSE LET b0 == b[i]
             need == IF b0 >= 194 /\ b0 <= 223 THEN 1
                     ELSE IF b0 >= 224 /\ b0 <= 239 THEN 2
                     ELSE IF b0 >= 240 /\ b0 <= 244 THEN 3
                     ELSE 0
             have == Cardinality({k \in 1..need :
                                    \A j \in 1..k : i + j <= Len(b) /\ IsContinuation(b[i + j])})
         IN  IF b0 < 128 THEN <<b0>> \o BufferToStringFrom(b, i + 1)
             ELSE IF need = 0 THEN <<ReplacementChar>> \o BufferToStringFrom(b, i + 1)
             ELSE IF have < need
             THEN <<ReplacementChar>> \o BufferToStringFrom(b, i + have + 1)
             ELSE CodeUnits(DecodeUtf8Unchecked(b, i - 1).cp)
                  \o BufferToStringFrom(b, i + need + 1)

BufferToString(b) == BufferToStringFrom(b, 1)

IsHighSurrogate(u) == u >= 55296 /\ u <= 56319
IsLowSurrogate(u) == u >= 56320 /\ u <= 57343

\* Buffer.from(string): UTF-8 encoding; a lone surrogate becomes U+FFFD
RECURSIVE BufferFromString(_)
BufferFromString(str) ==
    IF str = <<>> THEN <<>>
    ELSE IF IsHighSurrogate(str[1]) /\ Len(str) >= 2 /\ IsLowSurrogate(str[2])
    THEN EncodeUtf8(65536 + (str[1] - 55296) * 1024 + (str[2] - 56320))
         \o BufferFromString(SubSeq(str, 3, Len(str)))
    ELSE IF IsHighSurrogate(str[1]) \/ IsLowSurrogate(str[1])
    THEN EncodeUtf8(ReplacementChar) \o BufferFromString(Tail(str))
    ELSE EncodeUtf8(str[1]) \o BufferFromString(Tail(str))

IsDigit(u) == u >= 48 /\ u <= 57

\* /^<\d+;\d+;\d+[Mm]$/ ; the split(";") test that follows it in the code accepts
\* the same payloads
IsSgrMouse(payload) ==
    LET n == Len(payload)
        semis == {i \in 2..(n - 1) : payload[i] = 59}
    IN  /\ n >= 7
        /\ payload[1] = 60
        /\ payload[n] \in {77, 109}
        /\ \A i \in 2..(n - 1) : IsDigit(payload[i]) \/ payload[i] = 59
        /\ Cardinality(semis) = 2
        /\ \A i \in semis : i > 2 /\ i < n - 1 /\ (i + 1) \notin semis

IsCompleteCsiSequence(data) ==
    IF ~StartsWith(data, <<ESC, 91>>) THEN "complete"
    ELSE IF Len(data) < 3 THEN "incomplete"
    ELSE LET payload == SubSeq(data, 3, Len(data))
             lastCharCode == payload[Len(payload)]
         IN  IF lastCharCode >= 64 /\ lastCharCode <= 126
             THEN IF payload[1] = 60
                  THEN IF IsSgrMouse(payload) THEN "complete" ELSE "incomplete"
                  ELSE "complete"
             ELSE "incomplete"

IsCompleteOscSequence(data) ==
    IF ~StartsWith(data, <<ESC, 93>>) THEN "complete"
    ELSE IF EndsWith(data, <<ESC, 92>>) \/ EndsWith(data, <<7>>) THEN "complete"
    ELSE "incomplete"

IsCompleteDcsSequence(data) ==
    IF ~StartsWith(data, <<ESC, 80>>) THEN "complete"
    ELSE IF EndsWith(data, <<ESC, 92>>) THEN "complete"
    ELSE "incomplete"

IsCompleteApcSequence(data) ==
    IF ~StartsWith(data, <<ESC, 95>>) THEN "complete"
    ELSE IF EndsWith(data, <<ESC, 92>>) THEN "complete"
    ELSE "incomplete"

IsCompleteSequence(data) ==
    IF ~StartsWith(data, <<ESC>>) THEN "not-escape"
    ELSE IF Len(data) = 1 THEN "incomplete"
    ELSE LET afterEsc == Tail(data)
         IN  IF afterEsc[1] = 91
             THEN IF StartsWith(afterEsc, <<91, 77>>)
                  THEN IF Len(data) >= 6 THEN "complete" ELSE "incomplete"
                  ELSE IsCompleteCsiSequence(data)
             ELSE IF afterEsc[1] = 93 THEN IsCompleteOscSequence(data)
             ELSE IF afterEsc[1] = 80 THEN IsCompleteDcsSequence(data)
             ELSE IF afterEsc[1] = 95 THEN IsCompleteApcSequence(data)
             ELSE IF afterEsc[1] = 79
             THEN IF Len(afterEsc) >= 2 THEN "complete" ELSE "incomplete"
             ELSE "complete"

\* the while loop of extractCompleteSequences from position pos
RECURSIVE ExtractFrom(_, _, _)
ExtractFrom(buf, pos, sequences) ==
    IF pos >= Len(buf) THEN [sequences |-> sequences, remainder |-> <<>>]
    ELSE LET remaining == SubSeq(buf, pos + 1, Len(buf))
             ends == {seqEnd \in 1..Len(remaining) :
                         IsCompleteSequence(SubSeq(remaining, 1, seqEnd)) # "incomplete"}
             seqEnd == CHOOSE e \in ends : \A f \in ends : e <= f
         IN  IF remaining[1] = ESC
             THEN IF ends = {} THEN [sequences |-> sequences, remainder |-> remaining]
                  ELSE ExtractFrom(buf, pos + seqEnd,
                                   Append(sequences, SubSeq(remaining, 1, seqEnd)))
             ELSE ExtractFrom(buf, pos + 1, Append(sequences, <<remaining[1]>>))

ExtractCompleteSequences(buf) == ExtractFrom(buf, 0, <<>>)

(***************************************************************************)
(* class StdinBuffer.  An object state is a record of its fields and of    *)
(* the events emitted so far.                                              *)
(***************************************************************************)
StdinBufferInit ==
    [buffer |-> <<>>, timeout |-> FALSE, pasteMode |-> FALSE, pasteBuffer |-> <<>>,
     events |-> <<>>]

ClearBuffer(st) ==
    [st EXCEPT !.timeout = FALSE, !.buffer = <<>>, !.pasteMode = FALSE,
               !.pasteBuffer = <<>>]

\* the listener of the emitted event: it records the event and, when the event
\* is the one it waits for, calls clear() before it returns
Listener(st) == IF Len(st.events) = clearOn THEN ClearBuffer(st) ELSE st

Emit(st, type, data) ==
    Listener([st EXCEPT !.events = Append(@, [type |-> type, data |-> data])])

RECURSIVE EmitSequences(_, _)
EmitSequences(st, sequences) ==
    IF sequences = <<>> THEN st
    ELSE EmitSequences(Emit(st, "data", Head(sequences)), Tail(sequences))

\* data is a Buffer
NormalizeChunk(st, data) ==
    IF st.pasteMode THEN data
    ELSE IF Len(data) = 1 /\ data[1] > 127 THEN <<ESC, data[1] - 128>>
    ELSE data

\* the end of process(): the timer is armed when bytes are left in the buffer
ArmTimer(st) == [st EXCEPT !.timeout = Len(st.buffer) > 0]

RECURSIVE ProcessData(_, _)
RECURSIVE TryEmitPaste(_)

\* the last index of needle in hay (0-based), -1 when absent
LastIndexOf(hay, needle) ==
    LET at == {i \in 0..(Len(hay) - Len(needle)) :
                  SubSeq(hay, i + 1, i + Len(needle)) = needle}
    IN  IF at = {} THEN -1 ELSE CHOOSE i \in at : \A j \in at : j <= i

\* variant of tryEmitPaste that ends the paste at the last end marker received
TryEmitPasteAtLastMarker(st) ==
    LET endIndex == LastIndexOf(st.pasteBuffer, BRACKETED_PASTE_END)
        pastedContent == SubSeq(st.pasteBuffer, 1, endIndex)
        remaining == SubSeq(st.pasteBuffer, endIndex + Len(BRACKETED_PASTE_END) + 1,
                            Len(st.pasteBuffer))
        emitted == Emit([st EXCEPT !.pasteMode = FALSE, !.pasteBuffer = <<>>],
                        "paste", pastedContent)
    IN  IF endIndex = -1 THEN st
        ELSE IF Len(remaining) > 0 THEN ProcessData(emitted, remaining)
        ELSE emitted

TryEmitPaste(st) ==
    LET endIndex == IndexOf(st.pasteBuffer, BRACKETED_PASTE_END)
        pastedContent == SubSeq(st.pasteBuffer, 1, endIndex)
        remaining == SubSeq(st.pasteBuffer, endIndex + Len(BRACKETED_PASTE_END) + 1,
                            Len(st.pasteBuffer))
        emitted == Emit([st EXCEPT !.pasteMode = FALSE, !.pasteBuffer = <<>>],
                        "paste", pastedContent)
    IN  IF endIndex = -1 THEN st
        ELSE IF Len(remaining) > 0 THEN ProcessData(emitted, remaining)
        ELSE emitted

ProcessData(st0, data) ==
    LET st == [st0 EXCEPT !.timeout = FALSE]
        chunk == NormalizeChunk(st, data)
        joined == st.buffer \o chunk
        startIndex == IndexOf(joined, BRACKETED_PASTE_START)
    IN  IF Len(chunk) = 0 /\ Len(st.buffer) = 0 THEN Emit(st, "data", <<>>)
        ELSE IF st.pasteMode
        THEN TryEmitPaste([st EXCEPT !.pasteBuffer = @ \o chunk])    \* appendToPaste
        ELSE IF startIndex # -1
        THEN LET beforePaste == SubSeq(joined, 1, startIndex)
                 before == IF startIndex > 0
                           THEN EmitSequences(st,
                                    ExtractCompleteSequences(
                                        BufferToString(beforePaste)).sequences)
                           ELSE st
                 afterStart == SubSeq(joined,
                                      startIndex + Len(BRACKETED_PASTE_START) + 1,
                                      Len(joined))
             IN  TryEmitPaste([before EXCEPT !.pasteMode = TRUE,
                                             !.pasteBuffer = afterStart,
                                             !.buffer = <<>>])
        ELSE LET result == ExtractCompleteSequences(BufferToString(joined))
                 kept == BufferFromString(result.remainder)
             IN  ArmTimer(EmitSequences([st EXCEPT !.buffer = kept], result.sequences))

\* flush() as the timer callback uses it: the buffered bytes become one data event
FlushTimer(st) ==
    IF Len(st.buffer) = 0 THEN [st EXCEPT !.timeout = FALSE]
    ELSE Emit([st EXCEPT !.timeout = FALSE, !.buffer = <<>>],
              "data", BufferToString(st.buffer))


(***************************************************************************)
(* Inputs of the utf8 specifications: valid UTF-8 texts built from a small *)
(* alphabet of codepoints, optionally behind a run of ASCII padding that   *)
(* puts them across the first 16-byte vector boundary.                     *)
(***************************************************************************)
Methods == {"wcwidth", "unicode", "no_zwj"}
TabWidths == {2, 4}

\* a, TAB, COMBINING ACUTE, CJK 4E16, ZWJ, WOMAN 1F469, REGIONAL INDICATOR U
Alphabet == {97, 9, 769, 19990, 8205, 128105, 127482}
PadLens == {0, 14}

CpSeqs(S, n) == UNION {[1..k -> S] : k \in 0..n}
Pad(n) == [i \in 1..n |-> 120]
Texts == {Pad(p) \o EncodeAll(s) : p \in PadLens, s \in CpSeqs(Alphabet, MaxCps)}

NoArg == [max_columns |-> 0, is_ascii |-> FALSE, include_start_before |-> FALSE,
          byte_offset |-> 0]

\* number of padding bytes a text starts with
LeadingPad(t) == Cardinality({i \in 1..Len(t) : \A j \in 1..i : t[j] = 120})

\* column limits reaching the first MaxCols columns of the text and of what follows
\* its padding
ColumnLimits(t) == {base + k : base \in {0, LeadingPad(t)}, k \in 0..MaxCols}

AsciiFlags(t) == IF IsAsciiOnly(t) THEN {TRUE, FALSE} ELSE {FALSE}

StdinIdle ==
    /\ input = <<>>
    /\ fed = 0
    /\ buffer = <<>>
    /\ timeout = FALSE
    /\ pasteMode = FALSE
    /\ pasteBuffer = <<>>
    /\ events = <<>>
    /\ fired = FALSE
    /\ cleared = FALSE
    /\ timerTicks = 0
    /\ waited = 0
    /\ clearOn = 0

\* the view and key-handler variables while another part of the model runs
Events == {"keypress", "keyrelease", "paste"}
NoView == [kind |-> "none", destroyed |-> FALSE, extmarksController |-> FALSE,
           textBufferViewPtr |-> FALSE, freed |-> FALSE]
NoCall == [member |-> "none", outcome |-> "none", was_destroyed |-> FALSE,
           native |-> FALSE, freed_pointer |-> FALSE]
NoHandlers == [e \in Events |-> <<>>]
NoDispatch == [event |-> "none", calls |-> <<>>, defaultPrevented |-> FALSE,
               propagationStopped |-> FALSE, thrown |-> FALSE, halted |-> FALSE,
               returned |-> FALSE, before |-> <<>>, set |-> <<>>]

ViewIdle ==
    /\ view = NoView
    /\ viewcall = NoCall

KeyIdle ==
    /\ listeners = NoHandlers
    /\ renderableHandlers = NoHandlers
    /\ registered = 0
    /\ dispatch = NoDispatch
    /\ registrar = 0

\* the InputRenderable variables while another part of the model runs
NoWidget == [call |-> "none", plainText |-> <<>>, maxLength |-> 0,
             lastCommittedValue |-> <<>>, isDestroyed |-> FALSE, threw |-> FALSE]

InputIdle ==
    /\ widget = NoWidget
    /\ signals = <<>>

Utf8Init(T) ==
    /\ text \in T
    /\ width_method \in Methods
    /\ tab_width \in TabWidths
    /\ op = "none"
    /\ arg = NoArg
    /\ res = 0
    /\ StdinIdle
    /\ ViewIdle
    /\ KeyIdle
    /\ InputIdle

CallFindWrapPosByWidth ==
    \E mc \in ColumnLimits(text), a \in AsciiFlags(text) :
        /\ op = "none"
        /\ op' = "findWrapPosByWidth"
        /\ arg' = [NoArg EXCEPT !.max_columns = mc, !.is_ascii = a]
        /\ res' = FindWrapPosByWidth(text, mc, tab_width, a, width_method)
        /\ UNCHANGED <<text, width_method, tab_width, stdinvars, viewvars, keyvars, inputvars>>

CallFindPosByWidth ==
    \E mc \in ColumnLimits(text), a \in AsciiFlags(text), isb \in BOOLEAN :
        /\ op = "none"
        /\ op' = "findPosByWidth"
        /\ arg' = [NoArg EXCEPT !.max_columns = mc, !.is_ascii = a,
                                !.include_start_before = isb]
        /\ res' = FindPosByWidth(text, mc, tab_width, a, isb, width_method)
        /\ UNCHANGED <<text, width_method, tab_width, stdinvars, viewvars, keyvars, inputvars>>

ScanInit == Utf8Init(Texts)
ScanNext == CallFindWrapPosByWidth \/ CallFindPosByWidth
SpecScan == ScanInit /\ [][ScanNext]_vars

MeasureTexts == {EncodeAll(s) : s \in CpSeqs(Alphabet, MaxCps)}

CallGetWidthAt ==
    \E o \in 0..(Len(text) + 1) :
        /\ op = "none"
        /\ op' = "getWidthAt"
        /\ arg' = [NoArg EXCEPT !.byte_offset = o]
        /\ res' = GetWidthAt(text, o, tab_width, width_method)
        /\ UNCHANGED <<text, width_method, tab_width, stdinvars, viewvars, keyvars, inputvars>>

CallGetPrevGraphemeStart ==
    \E o \in 0..(Len(text) + 1) :
        /\ op = "none"
        /\ op' = "getPrevGraphemeStart"
        /\ arg' = [NoArg EXCEPT !.byte_offset = o]
        /\ res' = GetPrevGraphemeStart(text, o, tab_width, width_method)
        /\ UNCHANGED <<text, width_method, tab_width, stdinvars, viewvars, keyvars, inputvars>>

CallCalculateTextWidth ==
    \E a \in AsciiFlags(text) :
        /\ op = "none"
        /\ op' = "calculateTextWidth"
        /\ arg' = [NoArg EXCEPT !.is_ascii = a]
        /\ res' = CalculateTextWidth(text, tab_width, a, width_method)
        /\ UNCHANGED <<text, width_method, tab_width, stdinvars, viewvars, keyvars, inputvars>>

MeasureInit == Utf8Init(MeasureTexts)
MeasureNext == CallGetWidthAt \/ CallGetPrevGraphemeStart \/ CallCalculateTextWidth
SpecMeasure == MeasureInit /\ [][MeasureNext]_vars

(***************************************************************************)
(* Reference segmentation, computed on the codepoint sequence and not by   *)
(* the scans above.                                                        *)
(***************************************************************************)
RECURSIVE CodepointStartsFrom(_, _)
CodepointStartsFrom(t, pos) ==
    IF pos >= Len(t) THEN <<>>
    ELSE <<pos>> \o CodepointStartsFrom(t, pos + CodepointAt(t, pos).len)

CodepointStarts(t) == CodepointStartsFrom(t, 0)

\* UAX #29 boundaries; forced_zwj adds a boundary after every ZWJ
RECURSIVE Uax29StartsFrom(_, _, _, _, _)
Uax29StartsFrom(t, pos, prev_cp, state, forced_zwj) ==
    IF pos >= Len(t) THEN <<>>
    ELSE LET c == CodepointAt(t, pos)
             gb == IF prev_cp = -1 THEN [brk |-> TRUE, state |-> "default"]
                   ELSE IF forced_zwj /\ prev_cp = ZWJ THEN [brk |-> TRUE, state |-> "default"]
                   ELSE GraphemeIsBreak(prev_cp, c.cp, state)
         IN  (IF gb.brk THEN <<pos>> ELSE <<>>)
             \o Uax29StartsFrom(t, pos + c.len, c.cp, gb.state, forced_zwj)

Uax29Starts(t) == Uax29StartsFrom(t, 0, -1, "default", FALSE)

\* the cluster starts of a text under a width method: UAX #29 for unicode, UAX #29
\* with ZWJ forced to break for no_zwj, and every codepoint for wcwidth
MethodStarts(t, method) ==
    IF method = "wcwidth" THEN CodepointStarts(t)
    ELSE Uax29StartsFrom(t, 0, -1, "default", method = "no_zwj")

Range(s) == {s[i] : i \in 1..Len(s)}

\* end offset of the cluster that starts at starts[i]
ClusterEnd(t, starts, i) == IF i < Len(starts) THEN starts[i + 1] ELSE Len(t)

\* width of the codepoints of t[from..to) taken as one cluster
RECURSIVE ClusterWidthFrom(_, _, _, _, _)
ClusterWidthFrom(t, pos, to, ws, tw) ==
    IF pos >= to THEN ws.width
    ELSE LET c == CodepointAt(t, pos)
         IN  ClusterWidthFrom(t, pos + c.len, to,
                              AddCodepoint(ws, c.cp, CharWidth(ByteAt(t, pos), c.cp, tw)), tw)

ClusterWidth(t, from, to, tw, method) ==
    LET c == CodepointAt(t, from)
    IN  ClusterWidthFrom(t, from + c.len, to,
            GraphemeWidthStateInit(c.cp, CharWidth(ByteAt(t, from), c.cp, tw), method), tw)

\* column at which the i-th cluster ends
RECURSIVE EndColumn(_, _, _, _, _)
EndColumn(t, starts, i, tw, method) ==
    IF i = 0 THEN 0
    ELSE EndColumn(t, starts, i - 1, tw, method)
         + ClusterWidth(t, starts[i], ClusterEnd(t, starts, i), tw, method)

(***************************************************************************)
(* C1: find_pos_by_width with include_start_before = false returns a       *)
(* prefix that excludes every cluster whose end column exceeds             *)
(* max_columns: columns_used <= max_columns, and byte_offset is the end of *)
(* the last cluster that ends at or before column max_columns, wherever    *)
(* the excluded cluster lies (first, middle or last).                      *)
(***************************************************************************)
C1_SelectionStartExcludesCrossing ==
    (op = "findPosByWidth" /\ ~arg.include_start_before /\ arg.max_columns > 0)
    => LET starts == MethodStarts(text, width_method)
           fits == {i \in 0..Len(starts) :
                      EndColumn(text, starts, i, tab_width, width_method) <= arg.max_columns}
           last == CHOOSE i \in fits : \A j \in fits : j <= i
       IN  /\ res.columns_used <= arg.max_columns
           /\ res.byte_offset = IF last = 0 THEN 0 ELSE ClusterEnd(text, starts, last)

(***************************************************************************)
(* C3 as stated: for every width method the byte_offset returned by        *)
(* find_wrap_pos_by_width is 0, the end of the text, or the first byte of  *)
(* a grapheme cluster as defined by UAX #29.                               *)
(***************************************************************************)
C3_WrapOnUax29Boundary ==
    op = "findWrapPosByWidth"
    => res.byte_offset \in ({0, Len(text)} \cup Range(Uax29Starts(text)))

(***************************************************************************)
(* C3 amended: the byte_offset returned by find_wrap_pos_by_width is 0,    *)
(* the end of the text, or the first byte of a cluster of the width        *)
(* method in use: a UAX #29 cluster under unicode, a UAX #29 cluster with  *)
(* a forced boundary after every ZWJ under no_zwj, and a single codepoint  *)
(* under wcwidth.                                                          *)
(***************************************************************************)
C3_WrapOnMethodBoundary ==
    op = "findWrapPosByWidth"
    => res.byte_offset \in ({0, Len(text)} \cup Range(MethodStarts(text, width_method)))

\* a unicode wrap that stops strictly inside a text holding a multi-codepoint cluster
C3_Witness ==
    /\ op = "findWrapPosByWidth"
    /\ width_method = "unicode"
    /\ res.byte_offset > 0
    /\ res.byte_offset < Len(text)
    /\ \E o \in Range(CodepointStarts(text)) :
          /\ o \notin Range(Uax29Starts(text))
          /\ o < res.byte_offset

WrapAlphabet == {97, 32, 160, 769, 19990, 128105}    \* a, SPACE, NBSP, U+0301, CJK, WOMAN
WrapPadLens == {0, 15, 16, 31}
\* ASCII padding with a space as its second byte
WrapPad(n) == [i \in 1..n |-> IF i = 2 THEN 32 ELSE 120]
WrapTexts == {WrapPad(p) \o EncodeAll(s) : p \in WrapPadLens, s \in CpSeqs(WrapAlphabet, MaxCps)}

CallFindWrapBreaks ==
    /\ op = "none"
    /\ op' = "findWrapBreaks"
    /\ arg' = NoArg
    /\ res' = FindWrapBreaks(text, width_method)
    /\ UNCHANGED <<text, width_method, tab_width, stdinvars, viewvars, keyvars, inputvars>>

BreaksInit == Utf8Init(WrapTexts)
BreaksNext == CallFindWrapBreaks
SpecBreaks == BreaksInit /\ [][BreaksNext]_vars

AsciiAlphabet == {97, 32, 126}    \* a, SPACE, ~
AsciiPadLens == {0, 14, 16}
AsciiTexts ==
    {t \in {Pad(p) \o s : p \in AsciiPadLens, s \in CpSeqs(AsciiAlphabet, MaxCps)} :
        IsAsciiOnly(t)}

AsciiInit == Utf8Init(AsciiTexts)
AsciiNext == CallCalculateTextWidth \/ CallFindWrapPosByWidth \/ CallFindPosByWidth
SpecAscii == AsciiInit /\ [][AsciiNext]_vars

(***************************************************************************)
(* Inputs of the StdinBuffer specification: byte streams that the actions  *)
(* deliver in chunks cut at any position.                                  *)
(***************************************************************************)
\* ESC[1;5A  ESC[<0;1;2M  ESC[M !"  ESC[M <A0>!  ESC]0;t BEL  ESC]0;t ESC\
\* ESC]<C3 A9> BEL  ESC P>|x ESC\  ESC _Gx ESC\  ESC O A
EscapeSequences ==
    {<<27, 91, 49, 59, 53, 65>>,
     <<27, 91, 60, 48, 59, 49, 59, 50, 77>>,
     <<27, 91, 77, 32, 33, 34>>,
     <<27, 91, 77, 32, 160, 33>>,
     <<27, 93, 48, 59, 116, 7>>,
     <<27, 93, 48, 59, 116, 27, 92>>,
     <<27, 93, 195, 169, 7>>,
     <<27, 80, 62, 124, 120, 27, 92>>,
     <<27, 95, 71, 120, 27, 92>>,
     <<27, 79, 65>>}

\* what may precede a paste: nothing, "a", ESC, ESC[1;
PastePrefixes == {<<>>, <<97>>, <<27>>, <<27, 91, 49, 59>>}
\* pasted contents: "", "x", U+00E9, "x" ESC[200~
PasteContents == {<<>>, <<120>>, <<195, 169>>, <<120>> \o BRACKETED_PASTE_START}
\* what may follow a paste: nothing, "b"
PasteSuffixes == {<<>>, <<98>>}

PasteStreams ==
    {pre \o BRACKETED_PASTE_START \o c \o BRACKETED_PASTE_END \o suf :
        pre \in PastePrefixes, c \in PasteContents, suf \in PasteSuffixes}

Streams == EscapeSequences \cup PasteStreams

Object == [buffer |-> buffer, timeout |-> timeout, pasteMode |-> pasteMode,
           pasteBuffer |-> pasteBuffer, events |-> events]

Becomes(st) ==
    /\ buffer' = st.buffer
    /\ timeout' = st.timeout
    /\ pasteMode' = st.pasteMode
    /\ pasteBuffer' = st.pasteBuffer
    /\ events' = st.events

\* setTimeout(..., this.timeoutMs) when process() or flush() left the timer armed
Armed(st) == IF st.timeout THEN TimeoutTicks ELSE 0

\* the buffered bytes keep their age while they stay buffered and nothing is emitted
Age(st) == IF st.buffer = <<>> \/ st.events # events THEN 0 ELSE waited

\* TRUE when this step ran the listener's call of clear()
ListenerCleared == Len(events) < clearOn /\ clearOn <= Len(events')

StdinObject(S) ==
    /\ input \in S
    /\ fed = 0
    /\ buffer = StdinBufferInit.buffer
    /\ timeout = StdinBufferInit.timeout
    /\ pasteMode = StdinBufferInit.pasteMode
    /\ pasteBuffer = StdinBufferInit.pasteBuffer
    /\ events = StdinBufferInit.events
    /\ fired = FALSE
    /\ cleared = FALSE
    /\ timerTicks = 0
    /\ waited = 0
    /\ text = <<>>
    /\ width_method = "unicode"
    /\ tab_width = 2
    /\ op = "none"
    /\ arg = NoArg
    /\ res = 0
    /\ ViewIdle
    /\ KeyIdle
    /\ InputIdle

\* listeners that only record the events
StdinStart(S) ==
    /\ StdinObject(S)
    /\ clearOn = 0

StdinInit == StdinStart(Streams)

\* process(chunk): the next n bytes of the stream arrive as one Buffer
Process ==
    \E n \in 1..(Len(input) - fed) :
        /\ Becomes(ProcessData(Object, SubSeq(input, fed + 1, fed + n)))
        /\ timerTicks' = Armed(ProcessData(Object, SubSeq(input, fed + 1, fed + n)))
        /\ waited' = Age(ProcessData(Object, SubSeq(input, fed + 1, fed + n)))
        /\ fed' = fed + n
        /\ cleared' = (cleared \/ ListenerCleared)
        /\ UNCHANGED <<input, clearOn, fired, utf8vars, viewvars, keyvars, inputvars>>

\* the flush timer armed by process() fires
Timeout ==
    /\ timeout
    /\ Becomes(FlushTimer(Object))
    /\ timerTicks' = 0
    /\ waited' = 0
    /\ fired' = TRUE
    /\ cleared' = (cleared \/ ListenerCleared)
    /\ UNCHANGED <<input, clearOn, fed, utf8vars, viewvars, keyvars, inputvars>>

\* clear(), which is also all that destroy() does
Clear ==
    /\ Becomes(ClearBuffer(Object))
    /\ timerTicks' = 0
    /\ waited' = 0
    /\ cleared' = TRUE
    /\ UNCHANGED <<input, clearOn, fed, fired, utf8vars, viewvars, keyvars, inputvars>>

StdinNext == Process \/ Timeout \/ Clear
SpecStdin == StdinInit /\ [][StdinNext]_vars

\* pastes that hold a start marker and are followed by a second end marker:
\* a paste of "x" ESC[200~ before "b" ESC[201~, and a paste of ESC[200~ before ESC[201~
NestedStreams ==
    {BRACKETED_PASTE_START \o <<120>> \o BRACKETED_PASTE_START \o BRACKETED_PASTE_END
        \o <<98>> \o BRACKETED_PASTE_END,
     BRACKETED_PASTE_START \o BRACKETED_PASTE_START \o BRACKETED_PASTE_END
        \o BRACKETED_PASTE_END}

NestedInit == StdinStart(NestedStreams)
SpecStdinNested == NestedInit /\ [][StdinNext]_vars

\* the same StdinBuffer with a clock: a tick passes only while no armed timer
\* is due, and the timer callback runs when its delay has elapsed
\* lone ESC, ESC[<35, ESC[1;5A, ESC O A, and "a" before a paste of "x" before "b"
TimedStreams ==
    {<<27>>, <<27, 91, 60, 51, 53>>, <<27, 91, 49, 59, 53, 65>>, <<27, 79, 65>>,
     <<97>> \o BRACKETED_PASTE_START \o <<120>> \o BRACKETED_PASTE_END \o <<98>>}

TimedInit == StdinStart(TimedStreams)

Tick ==
    /\ timeout \/ buffer # <<>>
    /\ timeout => timerTicks > 0
    /\ waited < MaxWait
    /\ timerTicks' = IF timeout THEN timerTicks - 1 ELSE timerTicks
    /\ waited' = IF buffer # <<>> THEN waited + 1 ELSE waited
    /\ UNCHANGED <<input, fed, buffer, timeout, pasteMode, pasteBuffer, events, fired,
                   cleared, clearOn, utf8vars, viewvars, keyvars, inputvars>>

TimerDue ==
    /\ timerTicks = 0
    /\ Timeout

EmptyData == [type |-> "data", data |-> <<>>]

\* process("") or process(Buffer.alloc(0))
ProcessEmpty ==
    /\ Cardinality({i \in 1..Len(events) : events[i] = EmptyData}) < MaxEmptyData
    /\ Becomes(ProcessData(Object, <<>>))
    /\ timerTicks' = Armed(ProcessData(Object, <<>>))
    /\ waited' = Age(ProcessData(Object, <<>>))
    /\ cleared' = (cleared \/ ListenerCleared)
    /\ UNCHANGED <<input, clearOn, fed, fired, utf8vars, viewvars, keyvars, inputvars>>

TimedNext == Process \/ ProcessEmpty \/ Tick \/ TimerDue \/ Clear
SpecStdinTimed == TimedInit /\ [][TimedNext]_vars

\* the events a step adds
NewEvents == SubSeq(events', Len(events) + 1, Len(events'))

\* C16: a step taken while a bracketed paste is open emits nothing, or emits
\* the paste event first: no data event is emitted while the paste is open.
C16_NoDataWhilePasteOpen ==
    [][pasteMode => (NewEvents = <<>> \/ NewEvents[1].type = "paste")]_vars

\* the data of the events after the k-th, joined
DataAfter(k) == Flatten([i \in 1..(Len(events) - k) |-> events[k + i].data])

\* C17: the content of every paste event is the bytes between a start marker
\* of the input and the first end marker after it, start markers among those
\* bytes included; once the whole input is consumed, the bytes after that end
\* marker have been emitted as data events.
C17_PasteEndsAtFirstEndMarker ==
    \A k \in 1..Len(events) :
        events[k].type = "paste" =>
            \E p \in 0..Len(input) :
                /\ p + Len(events[k].data) + 12 <= Len(input)
                /\ SubSeq(input, p + 1, p + Len(events[k].data) + 12)
                      = BRACKETED_PASTE_START \o events[k].data \o BRACKETED_PASTE_END
                /\ IndexOf(events[k].data \o BRACKETED_PASTE_END, BRACKETED_PASTE_END)
                      = Len(events[k].data)
                /\ (fed = Len(input) /\ buffer = <<>> /\ ~cleared)
                      => DataAfter(k) = SubSeq(input, p + Len(events[k].data) + 13, Len(input))

\* a paste whose content holds a start marker, ended by the first of two end
\* markers, the rest emitted as data
C17_Witness ==
    /\ fed = Len(input) /\ buffer = <<>> /\ ~cleared
    /\ \E k \in 1..Len(events) :
          /\ events[k].type = "paste"
          /\ IndexOf(events[k].data, BRACKETED_PASTE_START) # -1
          /\ IndexOf(DataAfter(k), BRACKETED_PASTE_END) # -1

\* the StdinBuffer with a listener that calls clear() (as destroy() does) from
\* inside the event of number clearOn
\* "ab", ESC[<35 "b", and "a" before a paste of "x" before "b"
ReentrantStreams ==
    {<<97, 98>>, <<27, 91, 60, 51, 53, 98>>,
     <<97>> \o BRACKETED_PASTE_START \o <<120>> \o BRACKETED_PASTE_END \o <<98>>}

MaxClearOn == 2

ReentrantInit ==
    /\ StdinObject(ReentrantStreams)
    /\ clearOn \in 0..MaxClearOn

SpecStdinReentrant == ReentrantInit /\ [][StdinNext]_vars

\* how many events had been emitted when the step called clear()
ClearedAt == IF ListenerCleared THEN clearOn ELSE Len(events)

\* C18: a step in which clear() (or destroy()) is called emits nothing after
\* the call and leaves a fresh object: empty buffer, no timer armed, no paste
\* open, so that only later input can lead to events.
C18_ClearDiscardsEverything ==
    [][(~cleared /\ cleared') =>
          (/\ Len(events') = ClearedAt
           /\ buffer' = <<>> /\ ~timeout'
           /\ ~pasteMode' /\ pasteBuffer' = <<>>)]_vars

\* C15: buffered bytes wait for their sequence to complete no longer than the
\* configured timeout: when more time than that has passed since they were
\* buffered, they have been emitted and the buffer is empty.
C15_BufferedAtMostTimeout ==
    buffer # <<>> => waited <= TimeoutTicks

\* the cluster starts the specification's table gives each method: UAX #29, with a
\* boundary forced after ZWJ under no_zwj only
TableStarts(t, method) == Uax29StartsFrom(t, 0, -1, "default", method = "no_zwj")

\* end of the cluster that starts at o, o being one of starts
ClusterEndAt(t, starts, o) ==
    LET later == {x \in Range(starts) : x > o}
    IN  IF later = {} THEN Len(t) ELSE CHOOSE x \in later : \A y \in later : x <= y

(***************************************************************************)
(* C6 as stated: get_width_at returns 0 when byte_offset is at or past the *)
(* end of the text or at a byte inside a grapheme cluster other than the   *)
(* cluster's first byte, and the cluster's width when byte_offset is a     *)
(* cluster start.                                                          *)
(***************************************************************************)
C6_WidthAtZeroInsideCluster ==
    op = "getWidthAt"
    => LET starts == TableStarts(text, width_method)
           o == arg.byte_offset
       IN  IF o >= Len(text) \/ o \notin Range(starts) THEN res = 0
           ELSE res = ClusterWidth(text, o, ClusterEndAt(text, starts, o),
                                   tab_width, width_method)

(***************************************************************************)
(* C6 amended: get_width_at returns 0 when byte_offset is at or past the   *)
(* end of the text, and at the first byte of a cluster of the width method *)
(* in use (a single codepoint under wcwidth) it returns that cluster's     *)
(* width.  An offset inside a cluster is not detected.                     *)
(***************************************************************************)
C6_WidthAtClusterStart ==
    op = "getWidthAt"
    => LET starts == MethodStarts(text, width_method)
           o == arg.byte_offset
       IN  /\ o >= Len(text) => res = 0
           /\ (o < Len(text) /\ o \in Range(starts))
              => res = ClusterWidth(text, o, ClusterEndAt(text, starts, o),
                                    tab_width, width_method)

\* the width of a cluster of several codepoints is asked at its start, after
\* another cluster
C6_Witness ==
    /\ op = "getWidthAt"
    /\ width_method = "unicode"
    /\ arg.byte_offset > 0
    /\ arg.byte_offset \in Range(Uax29Starts(text))
    /\ \E x \in Range(CodepointStarts(text)) :
          /\ x > arg.byte_offset
          /\ x < ClusterEndAt(text, Uax29Starts(text), arg.byte_offset)
    /\ res = 2

(***************************************************************************)
(* C7: for every width method and every grapheme-cluster start offset      *)
(* o > 0 of a text, get_prev_grapheme_start(text, o) returns the start of  *)
(* the cluster immediately before o: start_offset plus that cluster's byte *)
(* length equals o.                                                        *)
(***************************************************************************)
C7_PrevGraphemeStartIsPreviousCluster ==
    (op = "getPrevGraphemeStart" /\ arg.byte_offset > 0
        /\ arg.byte_offset \in Range(TableStarts(text, width_method)))
    => LET starts == TableStarts(text, width_method)
       IN  /\ res.some
           /\ res.start_offset \in Range(starts)
           /\ ClusterEndAt(text, starts, res.start_offset) = arg.byte_offset

\* sum of get_width_at over the offsets of starts
RECURSIVE SumWidthAt(_, _, _, _, _)
SumWidthAt(t, starts, i, tw, method) ==
    IF i = 0 THEN 0
    ELSE SumWidthAt(t, starts, i - 1, tw, method) + GetWidthAt(t, starts[i], tw, method)

(***************************************************************************)
(* C8 as stated: for every width method and tab width,                     *)
(* calculate_text_width(s) equals the sum, over the grapheme clusters of   *)
(* s, of the width get_width_at reports at each cluster's start offset.    *)
(***************************************************************************)
C8_WidthIsSumOverClusters ==
    op = "calculateTextWidth"
    => LET starts == TableStarts(text, width_method)
       IN  res = SumWidthAt(text, starts, Len(starts), tab_width, width_method)

(***************************************************************************)
(* C8 amended: calculate_text_width(s) equals the sum of get_width_at over *)
(* the cluster starts of the width method in use: UAX #29 clusters under   *)
(* unicode, UAX #29 clusters with a boundary after every ZWJ under no_zwj, *)
(* and every codepoint under wcwidth.                                      *)
(***************************************************************************)
C8_WidthIsSumOverMethodClusters ==
    op = "calculateTextWidth"
    => LET starts == MethodStarts(text, width_method)
       IN  res = SumWidthAt(text, starts, Len(starts), tab_width, width_method)

\* a text of two clusters, one of them of several codepoints, is measured
C8_Witness ==
    /\ op = "calculateTextWidth"
    /\ width_method = "unicode"
    /\ Len(Uax29Starts(text)) = 2
    /\ Len(CodepointStarts(text)) = 3
    /\ res = 3

(***************************************************************************)
(* C9: every break find_wrap_breaks reports has a char_offset equal to the *)
(* number of grapheme clusters that start before the break's byte_offset,  *)
(* also when a codepoint or a cluster lies across a 16-byte chunk          *)
(* boundary.                                                               *)
(***************************************************************************)
C9_CharOffsetCountsClusters ==
    op = "findWrapBreaks"
    => \A k \in 1..Len(res) :
          res[k].char_offset
              = Cardinality({x \in Range(Uax29Starts(text)) : x < res[k].byte_offset})

\* the widths and break position of a scan result
Position(r) == [byte_offset |-> r.byte_offset, columns_used |-> r.columns_used]

(***************************************************************************)
(* C10: for every input on which is_ascii_only is true,                    *)
(* calculate_text_width, find_wrap_pos_by_width and find_pos_by_width      *)
(* return the same widths and break positions (columns_used, byte_offset)  *)
(* whether the is_ascii flag is set or cleared, for every max_columns and  *)
(* both values of include_start_before.                                    *)
(***************************************************************************)
C10_AsciiFastPathEquivalent ==
    IsAsciiOnly(text)
    => /\ op = "calculateTextWidth"
          => res = CalculateTextWidth(text, tab_width, ~arg.is_ascii, width_method)
       /\ op = "findWrapPosByWidth"
          => Position(res) = Position(FindWrapPosByWidth(text, arg.max_columns, tab_width,
                                                         ~arg.is_ascii, width_method))
       /\ op = "findPosByWidth"
          => Position(res) = Position(FindPosByWidth(text, arg.max_columns, tab_width,
                                                     ~arg.is_ascii, arg.include_start_before,
                                                     width_method))

\* the fast path cuts a text longer than one vector inside its first chunk
C10_Witness ==
    /\ op = "findPosByWidth"
    /\ arg.is_ascii
    /\ ~arg.include_start_before
    /\ Len(text) > VectorLen
    /\ res.byte_offset = VectorLen
    /\ res.columns_used = VectorLen

\* the events of one kind, in order
EventsOf(type) == SelectSeq(events, LAMBDA e : e.type = type)

\* the bytes of the stream before its first paste start marker
BeforeMarker(stream) == SubSeq(stream, 1, IndexOf(stream, BRACKETED_PASTE_START))

\* the bytes of the stream between its first start marker and the next end marker
BetweenMarkers(stream) ==
    LET rest == SubSeq(stream,
                       IndexOf(stream, BRACKETED_PASTE_START)
                           + Len(BRACKETED_PASTE_START) + 1,
                       Len(stream))
    IN  SubSeq(rest, 1, IndexOf(rest, BRACKETED_PASTE_END))

\* the strings of the data events emitted before the first paste event, joined
RECURSIVE DataBeforePaste(_)
DataBeforePaste(evs) ==
    IF evs = <<>> \/ Head(evs).type = "paste" THEN <<>>
    ELSE Head(evs).data \o DataBeforePaste(Tail(evs))

(***************************************************************************)
(* C2: StdinBuffer loses no input that precedes a bracketed-paste start    *)
(* marker: once the paste event has been emitted, the data events emitted  *)
(* before it carry, in arrival order, every byte received before the       *)
(* marker, including bytes that were still held in the buffer.             *)
(***************************************************************************)
C2_NothingLostBeforePaste ==
    (input \in PasteStreams /\ ~fired /\ ~cleared /\ EventsOf("paste") # <<>>)
    => BufferFromString(DataBeforePaste(events)) = BeforeMarker(input)

(***************************************************************************)
(* C4: an escape sequence (CSI, SGR or old-style mouse, OSC, DCS, APC,     *)
(* SS3) split across any number of chunks at any positions produces no     *)
(* data event until its last byte has arrived, and then exactly one data   *)
(* event carrying the whole sequence, the event a single chunk produces,   *)
(* provided the timer does not fire in between.                            *)
(***************************************************************************)
C4_SplitSequenceIsOneEvent ==
    (input \in EscapeSequences /\ ~fired /\ ~cleared)
    => /\ fed < Len(input) => events = <<>>
       /\ fed = Len(input)
          => /\ events = <<[type |-> "data", data |-> BufferToString(input)]>>
             /\ events = ProcessData(StdinBufferInit, input).events

(***************************************************************************)
(* C5: for a bracketed paste StdinBuffer emits exactly one paste event,    *)
(* whose data is exactly the bytes between the start marker and the next   *)
(* end marker, however the stream is split into chunks, splits inside      *)
(* either marker included, provided the timer does not fire in between.    *)
(***************************************************************************)
C5_OnePasteEventPerPaste ==
    (input \in PasteStreams /\ ~fired /\ ~cleared)
    => /\ Len(EventsOf("paste")) <= 1
       /\ \A i \in 1..Len(EventsOf("paste")) :
             EventsOf("paste")[i].data = BetweenMarkers(input)
       /\ fed = Len(input) => Len(EventsOf("paste")) = 1

(***************************************************************************)
(* TextBufferView and EditorView: wrappers around a native view pointer.   *)
(* A member is "guarded" when its body starts with this.guard(), which     *)
(* throws once _destroyed is set.                                          *)
(***************************************************************************)
ViewKinds == {"TextBufferView", "EditorView"}

TextBufferViewMembers ==
    {"ptr", "setSelection", "updateSelection", "resetSelection", "getSelection",
     "hasSelection", "setLocalSelection", "updateLocalSelection", "resetLocalSelection",
     "setWrapWidth", "setWrapMode", "setViewportSize", "setViewport", "lineInfo",
     "logicalLineInfo", "getSelectedText", "getPlainText", "setTabIndicator",
     "setTabIndicatorColor", "setTruncate", "measureForDimensions", "getVirtualLineCount"}

EditorViewMembers ==
    {"ptr", "setViewportSize", "setViewport", "getViewport", "setScrollMargin",
     "setWrapMode", "getVirtualLineCount", "getTotalVirtualLineCount", "setSelection",
     "updateSelection", "resetSelection", "getSelection", "hasSelection",
     "setLocalSelection", "updateLocalSelection", "resetLocalSelection",
     "getSelectedText", "getCursor", "getText", "getVisualCursor", "moveUpVisual",
     "moveDownVisual", "deleteSelectedText", "setCursorByOffset", "getNextWordBoundary",
     "getPrevWordBoundary", "getEOL", "getVisualSOL", "getVisualEOL", "getLineInfo",
     "getLogicalLineInfo", "extmarks", "setPlaceholderStyledText", "setTabIndicator",
     "setTabIndicatorColor", "measureForDimensions"}

ViewMembers(kind) ==
    IF kind = "TextBufferView" THEN TextBufferViewMembers ELSE EditorViewMembers

\* the members whose body begins with this.guard()
TextBufferViewGuarded == TextBufferViewMembers
EditorViewGuarded == EditorViewMembers \ {"extmarks"}

Guarded(kind, member) ==
    IF kind = "TextBufferView" THEN member \in TextBufferViewGuarded
    ELSE member \in EditorViewGuarded

\* the state after the constructor
ViewNew(kind) ==
    [kind |-> kind, destroyed |-> FALSE, extmarksController |-> FALSE,
     textBufferViewPtr |-> FALSE, freed |-> FALSE]

\* what createExtmarksController(editBuffer, view) can do: its code is outside
\* the modelled sources
CreateExtmarksControllerOutcomes == {"returned", "threw"}

ViewCall(v, member, outcome, native) ==
    [member |-> member, outcome |-> outcome, was_destroyed |-> v.destroyed,
     native |-> native, freed_pointer |-> native /\ v.freed]

\* the extmarks accessor of EditorView
Extmarks(v, created) ==
    IF v.extmarksController
    THEN [view |-> v, call |-> ViewCall(v, "extmarks", "returned", FALSE)]
    ELSE IF created = "threw"
    THEN [view |-> v, call |-> ViewCall(v, "extmarks", "threw", FALSE)]
    ELSE [view |-> [v EXCEPT !.extmarksController = TRUE],
          call |-> ViewCall(v, "extmarks", "returned", FALSE)]

\* one use of a public member other than destroy
UseMember(v, member, created) ==
    IF Guarded(v.kind, member) /\ v.destroyed
    THEN [view |-> v, call |-> ViewCall(v, member, "threw", FALSE)]
    ELSE IF member = "ptr"
    THEN [view |-> v, call |-> ViewCall(v, member, "returned", FALSE)]
    ELSE IF member = "extmarks" THEN Extmarks(v, created)
    ELSE IF member = "measureForDimensions" /\ v.kind = "EditorView"
    THEN [view |-> [v EXCEPT !.textBufferViewPtr = TRUE],
          call |-> ViewCall(v, member, "returned", TRUE)]
    ELSE [view |-> v, call |-> ViewCall(v, member, "returned", TRUE)]

DestroyView(v) ==
    IF v.destroyed
    THEN [view |-> v, call |-> ViewCall(v, "destroy", "returned", FALSE)]
    ELSE [view |-> [v EXCEPT !.extmarksController = FALSE, !.destroyed = TRUE,
                             !.freed = TRUE],
          call |-> ViewCall(v, "destroy", "returned", TRUE)]

ViewInit ==
    /\ view \in {ViewNew(k) : k \in ViewKinds}
    /\ viewcall = NoCall
    /\ text = <<>>
    /\ width_method = "unicode"
    /\ tab_width = 2
    /\ op = "none"
    /\ arg = NoArg
    /\ res = 0
    /\ StdinIdle
    /\ KeyIdle
    /\ InputIdle

Use ==
    \E member \in ViewMembers(view.kind), created \in CreateExtmarksControllerOutcomes :
        /\ view' = UseMember(view, member, created).view
        /\ viewcall' = UseMember(view, member, created).call
        /\ UNCHANGED <<utf8vars, stdinvars, keyvars, inputvars>>

Destroy ==
    /\ view' = DestroyView(view).view
    /\ viewcall' = DestroyView(view).call
    /\ UNCHANGED <<utf8vars, stdinvars, keyvars, inputvars>>

ViewNext == Use \/ Destroy
SpecViews == ViewInit /\ [][ViewNext]_vars

\* C11: once destroy() has been called, the use of any public member other
\* than destroy throws: it neither returns nor reaches the native library with
\* the freed pointer.
C11_DestroyedViewThrows ==
    (viewcall.was_destroyed /\ viewcall.member # "destroy")
        => (viewcall.outcome = "threw" /\ ~viewcall.freed_pointer)

(***************************************************************************)
(* KeyHandler / InternalKeyHandler: listeners registered with on() are the *)
(* "global" stage, handlers registered with onInternal() the "internal"    *)
(* stage.  A handler is a function; what it does with the event it is      *)
(* given is its behaviour: it may call preventDefault, stopPropagation,    *)
(* and may end by throwing.                                                *)
(***************************************************************************)
Behaviours == [prevent : BOOLEAN, stop : BOOLEAN, throws : BOOLEAN]

\* new KeyEvent(...) / new PasteEvent(...): both flags start false
NewEvent(event) == [NoDispatch EXCEPT !.event = event]

\* the function that handler h hands to onInternal while it runs
Child(h) == [id |-> h.id + MaxHandlers,
             does |-> [prevent |-> FALSE, stop |-> FALSE, throws |-> FALSE]]

\* Set.add: a function that is already in the set is not added again
SetAdd(H, h) == IF \E i \in 1..Len(H) : H[i].id = h.id THEN H ELSE Append(H, h)

\* handler(...args): the handler runs on the event object; the registrar also
\* calls onInternal(event, child), which adds to the live set of the event
CallHandler(ev, stage, h) ==
    [ev EXCEPT !.calls = Append(@, [stage |-> stage, id |-> h.id, does |-> h.does]),
               !.defaultPrevented = @ \/ h.does.prevent,
               !.propagationStopped = @ \/ h.does.stop,
               !.thrown = h.does.throws,
               !.set = IF h.id = registrar THEN SetAdd(@, Child(h)) ELSE @]

\* a call that lets the handler's exception through
Uncaught(ev) == ev

\* try { ... } catch (error) { console.error(...) }
Caught(ev) == [ev EXCEPT !.thrown = FALSE]

RECURSIVE RunHandlers(_, _, _, _)
\* variant of the check that goes on to the next handler whatever the event's
\* propagationStopped flag is
AfterHandlerIgnoringStop(stage, H, i, ev) ==
    IF ev.thrown THEN ev
    ELSE RunHandlers(stage, H, i + 1, ev)

\* the check made after the handler at index i has run
AfterHandler(stage, H, i, ev) ==
    IF ev.thrown THEN ev
    ELSE IF ev.propagationStopped THEN [ev EXCEPT !.halted = TRUE]
    ELSE RunHandlers(stage, H, i + 1, ev)

\* for (const listener of ...) over the snapshot H, from index i on
RunHandlers(stage, H, i, ev) ==
    IF i > Len(H) THEN ev
    ELSE AfterHandler(stage, H, i, Caught(CallHandler(ev, stage, H[i])))

\* variant of the second half that runs the internal handlers whatever the
\* event's flags are
EmitToRenderablesUnconditional(R, hasGlobalListeners, ev) ==
    IF ev.thrown THEN ev
    ELSE IF Len(R) > 0 THEN [RunHandlers("internal", R, 1, ev) EXCEPT !.returned = TRUE]
    ELSE [ev EXCEPT !.returned = hasGlobalListeners]

\* the second half of emitWithPriority, entered with the event as the global
\* stage left it
EmitToRenderables(R, hasGlobalListeners, ev) ==
    IF ev.thrown THEN ev
    ELSE IF ev.halted THEN [ev EXCEPT !.returned = hasGlobalListeners]
    ELSE IF Len(R) > 0 THEN
        IF ev.defaultPrevented \/ ev.propagationStopped
        THEN [ev EXCEPT !.returned = TRUE]
        ELSE [RunHandlers("internal", R, 1, ev) EXCEPT !.returned = TRUE]
    ELSE [ev EXCEPT !.returned = hasGlobalListeners]

\* variant of the dispatch that serves the internal handlers first
EmitWithPriorityInternalFirst(event, L, R) ==
    RunHandlers("global", L, 1,
        RunHandlers("internal", R, 1, [NewEvent(event) EXCEPT !.before = R, !.set = R]))

\* const renderableSet = this.renderableHandlers.get(event), read once the
\* global listeners have run, and its snapshot [...renderableSet]
EmitAfterGlobals(hasGlobalListeners, ev) ==
    EmitToRenderables(ev.set, hasGlobalListeners, ev)

EmitWithPriority(event, L, R) ==
    EmitAfterGlobals(Len(L) > 0,
        RunHandlers("global", L, 1, [NewEvent(event) EXCEPT !.before = R, !.set = R]))

\* processInput: parsed is what parseKeypress returned for the data
ProcessInputResult(parsed, L, R) ==
    IF parsed = "null" THEN [NoDispatch EXCEPT !.event = "unparsed"]
    ELSE IF parsed = "release"
    THEN Caught(EmitWithPriority("keyrelease", L["keyrelease"], R["keyrelease"]))
    ELSE Caught(EmitWithPriority("keypress", L["keypress"], R["keypress"]))

ProcessPasteResult(L, R) ==
    Caught(EmitWithPriority("paste", L["paste"], R["paste"]))

ParsedKeys == {"null", "press", "release", "other"}

KeyInit ==
    /\ KeyIdle
    /\ InputIdle
    /\ ViewIdle
    /\ StdinIdle
    /\ text = <<>>
    /\ width_method = "unicode"
    /\ tab_width = 2
    /\ op = "none"
    /\ arg = NoArg
    /\ res = 0

\* on(event, listener) with a new function
On ==
    \E e \in Events, b \in Behaviours :
        /\ registered < MaxHandlers
        /\ registered' = registered + 1
        /\ listeners' = [listeners EXCEPT ![e] = Append(@, [id |-> registered + 1, does |-> b])]
        /\ dispatch' = NoDispatch
        /\ UNCHANGED <<renderableHandlers, utf8vars, stdinvars, viewvars, registrar, inputvars>>

\* onInternal(event, handler) with a new function
OnInternal ==
    \E e \in Events, b \in Behaviours :
        /\ registered < MaxHandlers
        /\ registered' = registered + 1
        /\ renderableHandlers' =
              [renderableHandlers EXCEPT ![e] = Append(@, [id |-> registered + 1, does |-> b])]
        /\ dispatch' = NoDispatch
        /\ UNCHANGED <<listeners, utf8vars, stdinvars, viewvars, registrar, inputvars>>

\* offInternal(event, handler) with a registered handler
OffInternal ==
    \E e \in Events :
        \E i \in 1..Len(renderableHandlers[e]) :
            /\ renderableHandlers' =
                  [renderableHandlers EXCEPT ![e] =
                      SubSeq(@, 1, i - 1) \o SubSeq(@, i + 1, Len(@))]
            /\ dispatch' = NoDispatch
            /\ UNCHANGED <<listeners, registered, utf8vars, stdinvars, viewvars, registrar, inputvars>>

\* the handlers of the dispatched event are what the dispatch left in the set
AfterDispatch(R, d) == IF d.event \in Events THEN [R EXCEPT ![d.event] = d.set] ELSE R

ProcessInput ==
    \E parsed \in ParsedKeys :
        /\ dispatch' = ProcessInputResult(parsed, listeners, renderableHandlers)
        /\ renderableHandlers' = AfterDispatch(renderableHandlers, dispatch')
        /\ UNCHANGED <<listeners, registered, utf8vars, stdinvars, viewvars, registrar, inputvars>>

ProcessPaste ==
    /\ dispatch' = ProcessPasteResult(listeners, renderableHandlers)
    /\ renderableHandlers' = AfterDispatch(renderableHandlers, dispatch')
    /\ UNCHANGED <<listeners, registered, utf8vars, stdinvars, viewvars, registrar, inputvars>>

KeyNext == On \/ OnInternal \/ OffInternal \/ ProcessInput \/ ProcessPaste
SpecKeys == KeyInit /\ [][KeyNext]_vars

\* one of the handlers registers a further internal handler while it runs
ReentrantKeyInit ==
    /\ listeners = NoHandlers
    /\ renderableHandlers = NoHandlers
    /\ registered = 0
    /\ dispatch = NoDispatch
    /\ registrar \in 0..MaxHandlers
    /\ InputIdle
    /\ ViewIdle
    /\ StdinIdle
    /\ text = <<>>
    /\ width_method = "unicode"
    /\ tab_width = 2
    /\ op = "none"
    /\ arg = NoArg
    /\ res = 0

SpecKeysReentrant == ReentrantKeyInit /\ [][KeyNext]_vars

\* the calls of one stage in the last dispatch, in order
StageCalls(stage) == SelectSeq(dispatch.calls, LAMBDA c : c.stage = stage)

\* C12: when a global listener has called preventDefault on the dispatched
\* event, no internal handler is invoked for it.
C12_PreventDefaultSkipsInternal ==
    (\E i \in 1..Len(dispatch.calls) :
        dispatch.calls[i].stage = "global" /\ dispatch.calls[i].does.prevent)
        => StageCalls("internal") = <<>>

C12_Witness ==
    /\ dispatch.event \in Events
    /\ \E i \in 1..Len(dispatch.calls) :
          dispatch.calls[i].stage = "global" /\ dispatch.calls[i].does.prevent
    /\ ~dispatch.propagationStopped
    /\ Len(renderableHandlers[dispatch.event]) > 0

\* C13: in every dispatch all calls of global listeners come before the
\* first call of an internal handler, in whatever order the handlers were
\* registered.
C13_GlobalBeforeInternal ==
    \A i, j \in 1..Len(dispatch.calls) :
        (dispatch.calls[i].stage = "global" /\ dispatch.calls[j].stage = "internal")
            => i < j

\* an internal handler registered before a global listener, both called
C13_Witness ==
    \E i, j \in 1..Len(dispatch.calls) :
        /\ dispatch.calls[i].stage = "global"
        /\ dispatch.calls[j].stage = "internal"
        /\ dispatch.calls[j].id < dispatch.calls[i].id

\* the handlers of the last dispatched event that the dispatch called, by stage
CalledIds(stage) == {StageCalls(stage)[i].id : i \in 1..Len(StageCalls(stage))}
RegisteredIds(H) == {H[i].id : i \in 1..Len(H)}

\* C14: no exception of a handler leaves processInput / processPaste, and
\* when a called handler threw and the event ended neither default-prevented
\* nor propagation-stopped, every internal handler of the event was invoked.
C14_HandlerErrorContained ==
    dispatch.event \in Events =>
        /\ ~dispatch.thrown
        /\ ((\E i \in 1..Len(dispatch.calls) : dispatch.calls[i].does.throws)
             /\ ~dispatch.defaultPrevented /\ ~dispatch.propagationStopped)
            => CalledIds("internal") = RegisteredIds(renderableHandlers[dispatch.event])

\* a handler threw and an internal handler was invoked after it
C14_Witness ==
    /\ dispatch.event \in Events
    /\ ~dispatch.defaultPrevented /\ ~dispatch.propagationStopped
    /\ \E i, j \in 1..Len(dispatch.calls) :
          i < j /\ dispatch.calls[i].does.throws /\ dispatch.calls[j].stage = "internal"

(***************************************************************************)
(* C19: find_wrap_pos_by_width returns the greatest prefix of whole        *)
(* clusters that fits: columns_used <= max_columns, and when byte_offset   *)
(* is not the end of the text it is the start of a cluster of the width    *)
(* method whose width added to columns_used exceeds max_columns.           *)
(***************************************************************************)
C19_WrapIsGreatestPrefix ==
    op = "findWrapPosByWidth"
    => LET starts == MethodStarts(text, width_method)
           o == res.byte_offset
       IN  /\ res.columns_used <= arg.max_columns
           /\ o < Len(text)
              => /\ o \in Range(starts)
                 /\ res.columns_used
                      + ClusterWidth(text, o, ClusterEndAt(text, starts, o),
                                     tab_width, width_method) > arg.max_columns

(***************************************************************************)
(* C19 amended: columns_used <= max_columns always.  Under unicode and     *)
(* no_zwj with max_columns > 0 the prefix is the greatest that fits: when  *)
(* byte_offset is not the end of the text, the cluster starting there      *)
(* would exceed max_columns.  Under wcwidth, and for max_columns = 0, the  *)
(* prefix also ends as soon as columns_used has reached max_columns, so    *)
(* that zero-width codepoints that follow are left out: no cluster of the  *)
(* prefix starts at column max_columns or later.                           *)
(***************************************************************************)
C19_WrapStopsAtLimit ==
    op = "findWrapPosByWidth"
    => LET starts == MethodStarts(text, width_method)
           o == res.byte_offset
           early == width_method = "wcwidth" \/ arg.max_columns = 0
       IN  /\ res.columns_used <= arg.max_columns
           /\ o < Len(text)
              => /\ o \in Range(starts)
                 /\ \/ res.columns_used
                         + ClusterWidth(text, o, ClusterEndAt(text, starts, o),
                                        tab_width, width_method) > arg.max_columns
                    \/ early /\ res.columns_used = arg.max_columns
           /\ early
              => \A i \in 1..Len(starts) :
                    starts[i] < o
                    => EndColumn(text, starts, i - 1, tab_width, width_method)
                          < arg.max_columns

\* a wcwidth wrap that ends at the limit in front of a zero-width codepoint
C19_Witness ==
    /\ op = "findWrapPosByWidth"
    /\ width_method = "wcwidth"
    /\ arg.max_columns > 0
    /\ res.columns_used = arg.max_columns
    /\ res.byte_offset > 0
    /\ res.byte_offset < Len(text)
    /\ CodepointAt(text, res.byte_offset).cp = 769

(***************************************************************************)
(* findLineBreaks: 16-byte chunks followed by a scalar tail                *)
(***************************************************************************)
LineVectorLen == 16

LineBreak(pos, kind) == [pos |-> pos, kind |-> kind]

\* kind of a '\n' found at absolute_index
LfKind(t, absolute_index) ==
    IF absolute_index > 0 /\ ByteAt(t, absolute_index - 1) = 13 THEN "CRLF" ELSE "LF"

\* '\r' at absolute_index is followed by '\n'
CrBeforeLf(t, absolute_index) ==
    absolute_index + 1 < Len(t) /\ ByteAt(t, absolute_index + 1) = 10

\* @reduce(.Or, cmp_nl) or @reduce(.Or, cmp_cr)
ChunkHasBreak(t, pos) ==
    \E i \in 0..(LineVectorLen - 1) : ByteAt(t, pos + i) \in {10, 13}

RECURSIVE LineChunkLoopNoSkip(_, _, _, _, _)
\* variant of the chunk loop that never skips the '\n' of a split CRLF
LineChunkLoopNoSkip(t, pos, i, prev_was_cr, breaks) ==
    IF i >= LineVectorLen THEN breaks
    ELSE IF ByteAt(t, pos + i) = 10
         THEN LineChunkLoopNoSkip(t, pos, i + 1, prev_was_cr,
                  Append(breaks, LineBreak(pos + i, LfKind(t, pos + i))))
    ELSE IF ByteAt(t, pos + i) = 13
         THEN IF CrBeforeLf(t, pos + i)
              THEN LineChunkLoopNoSkip(t, pos, i + 2, prev_was_cr,
                       Append(breaks, LineBreak(pos + i + 1, "CRLF")))
              ELSE LineChunkLoopNoSkip(t, pos, i + 1, prev_was_cr,
                       Append(breaks, LineBreak(pos + i, "CR")))
    ELSE LineChunkLoopNoSkip(t, pos, i + 1, prev_was_cr, breaks)

RECURSIVE LineChunkLoop(_, _, _, _, _)
\* while (i < vector_len) : (i += 1) over one chunk that holds a match
LineChunkLoop(t, pos, i, prev_was_cr, breaks) ==
    IF i >= LineVectorLen THEN breaks
    ELSE IF ByteAt(t, pos + i) = 10
         THEN IF i = 0 /\ prev_was_cr
              THEN LineChunkLoop(t, pos, i + 1, FALSE, breaks)
              ELSE LineChunkLoop(t, pos, i + 1, prev_was_cr,
                       Append(breaks, LineBreak(pos + i, LfKind(t, pos + i))))
    ELSE IF ByteAt(t, pos + i) = 13
         THEN IF CrBeforeLf(t, pos + i)
              THEN LineChunkLoop(t, pos, i + 2, prev_was_cr,
                       Append(breaks, LineBreak(pos + i + 1, "CRLF")))
              ELSE LineChunkLoop(t, pos, i + 1, prev_was_cr,
                       Append(breaks, LineBreak(pos + i, "CR")))
    ELSE LineChunkLoop(t, pos, i + 1, prev_was_cr, breaks)

RECURSIVE LineTail(_, _, _, _)
\* while (pos < text.len) : (pos += 1) over the remaining bytes
LineTail(t, pos, prev_was_cr, breaks) ==
    IF pos >= Len(t) THEN breaks
    ELSE IF ByteAt(t, pos) = 10
         THEN IF pos > 0 /\ ByteAt(t, pos - 1) = 13 /\ prev_was_cr
              THEN LineTail(t, pos + 1, FALSE, breaks)
              ELSE LineTail(t, pos + 1, FALSE,
                       Append(breaks, LineBreak(pos, LfKind(t, pos))))
    ELSE IF ByteAt(t, pos) = 13
         THEN IF CrBeforeLf(t, pos)
              THEN LineTail(t, pos + 2, FALSE, Append(breaks, LineBreak(pos + 1, "CRLF")))
              ELSE LineTail(t, pos + 1, FALSE, Append(breaks, LineBreak(pos, "CR")))
    ELSE LineTail(t, pos + 1, FALSE, breaks)

RECURSIVE LineChunks(_, _, _, _)
\* while (pos + vector_len <= text.len), then the scalar tail
LineChunks(t, pos, prev_was_cr, breaks) ==
    IF pos + LineVectorLen <= Len(t)
    THEN IF ChunkHasBreak(t, pos)
         THEN LineChunks(t, pos + LineVectorLen,
                  ByteAt(t, pos + LineVectorLen - 1) = 13,
                  LineChunkLoop(t, pos, 0, prev_was_cr, breaks))
         ELSE LineChunks(t, pos + LineVectorLen, FALSE, breaks)
    ELSE LineTail(t, pos, prev_was_cr, breaks)

FindLineBreaks(t) == LineChunks(t, 0, FALSE, <<>>)

\* texts that put CR and LF inside a chunk, across a chunk boundary and in the tail
LineAlphabet == {97, 10, 13}
LinePadLens == {0, 14, 15}
LineTailLens == {0, 16}
LinePad(n) == [i \in 1..n |-> 120]
LineTexts == {LinePad(p) \o s \o LinePad(q) : p \in LinePadLens, q \in LineTailLens, s \in CpSeqs(LineAlphabet, MaxCps)}

CallFindLineBreaks ==
    /\ op = "none"
    /\ op' = "findLineBreaks"
    /\ arg' = NoArg
    /\ res' = FindLineBreaks(text)
    /\ UNCHANGED <<text, width_method, tab_width, stdinvars, viewvars, keyvars, inputvars>>

LinesInit == Utf8Init(LineTexts)
LinesNext == CallFindLineBreaks
SpecLines == LinesInit /\ [][LinesNext]_vars

\* the line terminator that ends at byte index p, "none" when no terminator ends there
TerminatorAt(t, p) ==
    IF ByteAt(t, p) = 10
    THEN IF p > 0 /\ ByteAt(t, p - 1) = 13 THEN "CRLF" ELSE "LF"
    ELSE IF ByteAt(t, p) = 13 /\ ~(p + 1 < Len(t) /\ ByteAt(t, p + 1) = 10) THEN "CR"
    ELSE "none"

\* C20: find_line_breaks reports every CR LF pair exactly once, as one CRLF
\* break at the index of the LF, also when the CR ends one 16-byte chunk and
\* the LF starts the next; a CR not followed by LF is reported as CR at its
\* index and an LF not preceded by CR as LF at its index; nothing else is
\* reported and the breaks are in increasing position.
C20_LineBreaksExact ==
    op = "findLineBreaks"
    => /\ \A p \in 0..(Len(text) - 1) :
             LET hits == {k \in 1..Len(res) : res[k].pos = p}
             IN  IF TerminatorAt(text, p) = "none"
                 THEN hits = {}
                 ELSE /\ Cardinality(hits) = 1
                      /\ \A k \in hits : res[k].kind = TerminatorAt(text, p)
       /\ \A k \in 1..Len(res) : res[k].pos \in 0..(Len(text) - 1)
       /\ \A k \in 1..(Len(res) - 1) : res[k].pos < res[k + 1].pos

\* a CR that is the last byte of the first chunk, its LF the first byte of a
\* second full chunk, reported as one CRLF break at the LF
C20_Witness ==
    /\ op = "findLineBreaks"
    /\ Len(text) >= 2 * LineVectorLen
    /\ ByteAt(text, LineVectorLen - 1) = 13
    /\ ByteAt(text, LineVectorLen) = 10
    /\ \E k \in 1..Len(res) : res[k] = LineBreak(LineVectorLen, "CRLF")

\* the codepoint that starts at byte s comes directly after a ZWJ
FollowsZwj(t, s) ==
    \E z \in Range(CodepointStarts(t)) :
        CodepointAt(t, z).cp = ZWJ /\ z + CodepointAt(t, z).len = s

\* the last codepoint start before byte o
LastCodepointStartBefore(t, o) ==
    LET before == {x \in Range(CodepointStarts(t)) : x < o}
    IN  CHOOSE x \in before : \A y \in before : y <= x

(***************************************************************************)
(* C21: under no_zwj the operations that take a width method treat the     *)
(* codepoint that follows a ZWJ as the start of a new cluster.  For the    *)
(* measuring operations: get_width_at at such a codepoint returns the      *)
(* width of the cluster that starts there, calculate_text_width is the sum *)
(* over the clusters cut after every ZWJ, and get_prev_grapheme_start,     *)
(* asked at the cluster boundary right behind such a codepoint, returns    *)
(* that codepoint's offset.                                                *)
(***************************************************************************)
C21_NoZwjBreaksAfterZwj ==
    width_method = "no_zwj"
    => LET starts == MethodStarts(text, "no_zwj")
           o == arg.byte_offset
       IN  /\ (op = "getWidthAt" /\ o < Len(text) /\ FollowsZwj(text, o))
              => res = ClusterWidth(text, o, ClusterEndAt(text, starts, o),
                                    tab_width, "no_zwj")
           /\ op = "calculateTextWidth"
              => res = EndColumn(text, starts, Len(starts), tab_width, "no_zwj")
           /\ (op = "getPrevGraphemeStart" /\ o > 0 /\ o <= Len(text)
                 /\ o \in Range(starts) \cup {Len(text)}
                 /\ FollowsZwj(text, LastCodepointStartBefore(text, o)))
              => res.some /\ res.start_offset = LastCodepointStartBefore(text, o)

(***************************************************************************)
(* findGraphemeInfo.  The scan state holds the result list, the running    *)
(* column and the cluster being built; prev_cp = -1 stands for null and    *)
(* for cluster_started = false.                                            *)
(***************************************************************************)
InfoStateInit ==
    [result |-> <<>>, col |-> 0, prev_cp |-> -1, break_state |-> "default",
     cluster_start |-> 0, cluster_start_col |-> 0,
     cluster_width_state |-> GraphemeWidthStateInit(0, 0, "unicode"),
     cluster_is_multibyte |-> FALSE, cluster_is_tab |-> FALSE]

GraphemeInfo(st, cluster_end) ==
    [byte_offset |-> st.cluster_start,
     byte_len |-> cluster_end - st.cluster_start,
     width |-> st.cluster_width_state.width,
     col_offset |-> st.cluster_start_col]

\* variant of the commit that reports multi-byte clusters only
InfoCommitMultibyteOnly(st, cluster_end, method) ==
    IF st.prev_cp # -1 /\ st.cluster_is_multibyte
    THEN [st EXCEPT !.result = IF st.cluster_width_state.width > 0 \/ method = "wcwidth"
                               THEN Append(@, GraphemeInfo(st, cluster_end)) ELSE @,
                    !.col = @ + st.cluster_width_state.width]
    ELSE IF st.prev_cp # -1 THEN [st EXCEPT !.col = @ + st.cluster_width_state.width]
    ELSE st

\* the cluster that ends at cluster_end is appended when it is multi-byte or a tab
\* and, outside wcwidth, has a width; the column advances in every case
InfoCommit(st, cluster_end, method) ==
    IF st.prev_cp # -1 /\ (st.cluster_is_multibyte \/ st.cluster_is_tab)
    THEN [st EXCEPT !.result = IF st.cluster_width_state.width > 0 \/ method = "wcwidth"
                               THEN Append(@, GraphemeInfo(st, cluster_end)) ELSE @,
                    !.col = @ + st.cluster_width_state.width]
    ELSE IF st.prev_cp # -1 THEN [st EXCEPT !.col = @ + st.cluster_width_state.width]
    ELSE st

\* a break at byte p: the finished cluster is committed and a new one starts with
\* codepoint c of width cp_width
InfoStartCluster(done, t, p, c, cp_width, method, state) ==
    [done EXCEPT !.cluster_start = p,
                 !.cluster_start_col = done.col,
                 !.cluster_is_tab = (ByteAt(t, p) = 9),
                 !.cluster_is_multibyte = (c.len # 1),
                 !.cluster_width_state = GraphemeWidthStateInit(c.cp, cp_width, method),
                 !.prev_cp = c.cp,
                 !.break_state = state]

\* the body shared by the loops of findGraphemeInfoUnicode and
\* findGraphemeInfoWCWidth: one codepoint c at byte p, gb the break decision
InfoApply(st, t, p, c, cp_width, gb, method) ==
    IF gb.brk
    THEN InfoStartCluster(InfoCommit(st, p, method), t, p, c, cp_width, method, gb.state)
    ELSE [st EXCEPT !.cluster_is_multibyte = (@ \/ c.len # 1),
                    !.cluster_width_state = AddCodepoint(@, c.cp, cp_width),
                    !.prev_cp = c.cp,
                    !.break_state = gb.state]

InfoStep(st, t, p, tw, method) ==
    InfoApply(st, t, p, CodepointAt(t, p),
              CharWidth(ByteAt(t, p), CodepointAt(t, p).cp, tw),
              IsGraphemeBreak(st.prev_cp, CodepointAt(t, p).cp, st.break_state, method),
              method)

RECURSIVE InfoAsciiChunk(_, _, _, _, _, _)
InfoAsciiChunk(st, t, pos, i, tw, method) ==
    IF i >= VectorLen THEN st
    ELSE InfoAsciiChunk(
             InfoApply(st, t, pos + i, [cp |-> ByteAt(t, pos + i), len |-> 1],
                       AsciiCharWidth(ByteAt(t, pos + i), tw),
                       IsGraphemeBreak(st.prev_cp, ByteAt(t, pos + i), st.break_state, method),
                       method),
             t, pos, i + 1, tw, method)

RECURSIVE InfoTail(_, _, _, _, _)
InfoTail(st, t, pos, tw, method) ==
    IF pos >= Len(t) THEN st
    ELSE IF pos + CodepointAt(t, pos).len > Len(t) THEN st
    ELSE InfoTail(InfoStep(st, t, pos, tw, method), t, pos + CodepointAt(t, pos).len,
                  tw, method)

RECURSIVE InfoChunks(_, _, _, _, _)
RECURSIVE InfoMixedChunk(_, _, _, _, _, _)
\* the slow path of one chunk; it ends with pos += i and the next chunk
InfoMixedChunk(st, t, pos, i, tw, method) ==
    IF ~(i < VectorLen /\ pos + i < Len(t)) THEN InfoChunks(st, t, pos + i, tw, method)
    ELSE IF pos + i + CodepointAt(t, pos + i).len > Len(t) THEN InfoTail(st, t, pos + i, tw, method)
    ELSE InfoMixedChunk(InfoStep(st, t, pos + i, tw, method), t, pos,
                        i + CodepointAt(t, pos + i).len, tw, method)

InfoChunks(st, t, pos, tw, method) ==
    IF pos + VectorLen <= Len(t)
    THEN IF ChunkIsAscii(t, pos)
         THEN InfoChunks(InfoAsciiChunk(st, t, pos, 0, tw, method), t, pos + VectorLen,
                         tw, method)
         ELSE InfoMixedChunk(st, t, pos, 0, tw, method)
    ELSE InfoTail(st, t, pos, tw, method)

FindGraphemeInfoUnicode(t, tw, isASCIIOnly, method) ==
    IF isASCIIOnly /\ method # "wcwidth" THEN <<>>
    ELSE IF Len(t) = 0 THEN <<>>
    ELSE InfoCommit(InfoChunks(InfoStateInit, t, 0, tw, method), Len(t), method).result

FindGraphemeInfoWCWidth(t, tw, isASCIIOnly) ==
    IF isASCIIOnly THEN <<>>
    ELSE IF Len(t) = 0 THEN <<>>
    ELSE InfoCommit(InfoTail(InfoStateInit, t, 0, tw, "wcwidth"), Len(t), "wcwidth").result

FindGraphemeInfo(t, tw, isASCIIOnly, method) ==
    IF method = "wcwidth" THEN FindGraphemeInfoWCWidth(t, tw, isASCIIOnly)
    ELSE FindGraphemeInfoUnicode(t, tw, isASCIIOnly, method)

CallFindGraphemeInfo ==
    \E a \in AsciiFlags(text) :
        /\ op = "none"
        /\ op' = "findGraphemeInfo"
        /\ arg' = [NoArg EXCEPT !.is_ascii = a]
        /\ res' = FindGraphemeInfo(text, tab_width, a, width_method)
        /\ UNCHANGED <<text, width_method, tab_width, stdinvars, viewvars, keyvars, inputvars>>

InfoInit == Utf8Init(Texts)
InfoNext == CallFindGraphemeInfo
SpecInfo == InfoInit /\ [][InfoNext]_vars

\* the cluster t[s..e) is a tab or holds a multi-byte codepoint
NonTrivialCluster(t, s, e) ==
    ByteAt(t, s) = 9 \/ \E p \in s..(e - 1) : ByteAt(t, p) >= 128

\* the entries of a result that start at byte s
EntriesAt(r, s) == {k \in 1..Len(r) : r[k].byte_offset = s}

C24_GlobalErrorStopsGlobals ==
    \A i \in 1..Len(dispatch.calls) :
        (dispatch.calls[i].stage = "global" /\ dispatch.calls[i].does.throws)
        => /\ \A j \in (i + 1)..Len(dispatch.calls) : dispatch.calls[j].stage # "global"
           /\ (~dispatch.defaultPrevented /\ ~dispatch.propagationStopped)
              => CalledIds("internal") = RegisteredIds(renderableHandlers[dispatch.event])

\* C27: once a handler has called stopPropagation on a dispatched event, no
\* handler later in the dispatch order is invoked for it, neither a
\* remaining global listener nor an internal handler.
C27_StopPropagationEndsDispatch ==
    \A i \in 1..Len(dispatch.calls) :
        dispatch.calls[i].does.stop => i = Len(dispatch.calls)

\* a global listener stopped the propagation while an internal handler of the
\* same event was registered and was not called
C27_Witness ==
    /\ dispatch.event \in Events
    /\ Len(dispatch.calls) = 1
    /\ dispatch.calls[1].stage = "global"
    /\ dispatch.calls[1].does.stop
    /\ Len(renderableHandlers[dispatch.event]) > 0

\* C28: a handler registered with onInternal while an event is being
\* dispatched, from inside any listener or handler of that event, is not
\* invoked for that event: every internal handler the dispatch calls was
\* registered before the dispatch began.
C28_RegisteredDuringDispatchNotCalled ==
    \A i \in 1..Len(dispatch.calls) :
        dispatch.calls[i].stage = "internal"
            => dispatch.calls[i].id \in RegisteredIds(dispatch.before)

(***************************************************************************)
(* renderables/Input.ts.  A string is a sequence of UTF-16 code units; an  *)
(* optional value is a record, Undefined or Some(v).  The                  *)
(* TextareaRenderable that InputRenderable extends is reduced to the text  *)
(* it holds and a cursor that may stand anywhere in it.                    *)
(***************************************************************************)
MaxLength == 2
MaxChars == 2
MaxText == 3
DefaultMaxLength == 1000
Undefined == [some |-> FALSE]
Some(v) == [some |-> TRUE, v |-> v]

Chars == {97, 98, 10, 13}
Strings == UNION {[1..k -> Chars] : k \in 0..MaxChars}
MaxLengths == 0..MaxLength

\* text.replace(/[\n\r]/g, "")
StripNewlines(str) == SelectSeq(str, LAMBDA u : u \notin {10, 13})

\* str.substring(0, n)
Substring0(str, n) == SubSeq(str, 1, IF n < 0 THEN 0 ELSE IF n > Len(str) THEN Len(str) ELSE n)

\* options.x ?? defaults.x
OrDefault(x, default) == IF x.some THEN x.v ELSE default

\* TextareaRenderable.insertText: the text goes in at the cursor
TextareaInsertText(plainText, cursor, toInsert) ==
    SubSeq(plainText, 1, cursor) \o toInsert \o SubSeq(plainText, cursor + 1, Len(plainText))

\* TextareaRenderable.deleteCharBackward: the code unit before the cursor goes
TextareaDeleteCharBackward(plainText, cursor) ==
    SubSeq(plainText, 1, cursor - 1) \o SubSeq(plainText, cursor + 1, Len(plainText))

\* the outcome of a call: the widget after it and the events it emitted
Outcome(w, call, emits) == [widget |-> [w EXCEPT !.call = call, !.threw = FALSE], emits |-> emits]

\* a call that ends with a TypeError and has changed nothing
Throws(w, call) == [widget |-> [w EXCEPT !.call = call, !.threw = TRUE], emits |-> <<>>]

InputEvent(type, value) == [type |-> type, value |-> value]

NewInputRenderable(value, maxLength) ==
    Outcome([NoWidget EXCEPT
                !.plainText = Substring0(StripNewlines(OrDefault(value, <<>>)),
                                         OrDefault(maxLength, DefaultMaxLength)),
                !.maxLength = OrDefault(maxLength, DefaultMaxLength),
                !.lastCommittedValue =
                    Substring0(StripNewlines(OrDefault(value, <<>>)),
                               OrDefault(maxLength, DefaultMaxLength))],
            "constructor", <<>>)

\* variant of insertText that inserts the whole sanitized text
InsertTextUntruncated(w, str, cursor, call) ==
    IF StripNewlines(str) = <<>> THEN Outcome(w, call, <<>>)
    ELSE IF w.maxLength - Len(w.plainText) <= 0 THEN Outcome(w, call, <<>>)
    ELSE Outcome([w EXCEPT !.plainText = TextareaInsertText(@, cursor, StripNewlines(str))],
                 call,
                 <<InputEvent("input", TextareaInsertText(w.plainText, cursor, StripNewlines(str)))>>)

\* insertText(text), the cursor being at cursor
InsertText(w, str, cursor, call) ==
    IF StripNewlines(str) = <<>> THEN Outcome(w, call, <<>>)
    ELSE IF w.maxLength - Len(w.plainText) <= 0 THEN Outcome(w, call, <<>>)
    ELSE Outcome([w EXCEPT !.plainText =
                     TextareaInsertText(@, cursor,
                         Substring0(StripNewlines(str), w.maxLength - Len(w.plainText)))],
                 call,
                 <<InputEvent("input",
                       TextareaInsertText(w.plainText, cursor,
                           Substring0(StripNewlines(str), w.maxLength - Len(w.plainText))))>>)

\* handlePaste(event): event.text.replace(...) on an undefined text is a TypeError
HandlePaste(w, event, cursor) ==
    IF ~event.text.some THEN Throws(w, "handlePaste")
    ELSE IF StripNewlines(event.text.v) = <<>> THEN Outcome(w, "handlePaste", <<>>)
    ELSE InsertText(w, StripNewlines(event.text.v), cursor, "handlePaste")

\* set value(value)
SetValue(w, value) ==
    IF w.plainText # StripNewlines(Substring0(value, w.maxLength))
    THEN Outcome([w EXCEPT !.plainText = StripNewlines(Substring0(value, w.maxLength))],
                 "value", <<InputEvent("input", StripNewlines(Substring0(value, w.maxLength)))>>)
    ELSE Outcome(w, "value", <<>>)

\* set maxLength(maxLength)
SetMaxLength(w, maxLength) ==
    Outcome([w EXCEPT !.maxLength = maxLength,
                      !.plainText = IF Len(@) > maxLength THEN Substring0(@, maxLength) ELSE @],
            "maxLength", <<>>)

FocusInput(w) == Outcome([w EXCEPT !.lastCommittedValue = w.plainText], "focus", <<>>)

\* variant of the commit that emits CHANGE without comparing the values
CommitAlways(w) ==
    [widget |-> [w EXCEPT !.lastCommittedValue = w.plainText],
     emits |-> <<InputEvent("change", w.plainText)>>]

\* if (currentValue !== this._lastCommittedValue) { ...; emit(CHANGE, currentValue) }
Commit(w) ==
    IF w.plainText # w.lastCommittedValue
    THEN [widget |-> [w EXCEPT !.lastCommittedValue = w.plainText],
          emits |-> <<InputEvent("change", w.plainText)>>]
    ELSE [widget |-> w, emits |-> <<>>]

BlurInput(w) ==
    IF ~w.isDestroyed THEN Outcome(Commit(w).widget, "blur", Commit(w).emits)
    ELSE Outcome(w, "blur", <<>>)

SubmitInput(w) ==
    Outcome(Commit(w).widget, "submit",
            Commit(w).emits \o <<InputEvent("enter", w.plainText)>>)

DeleteCharBackwardInput(w, cursor) ==
    Outcome([w EXCEPT !.plainText = TextareaDeleteCharBackward(@, cursor)],
            "deleteCharBackward",
            <<InputEvent("input", TextareaDeleteCharBackward(w.plainText, cursor))>>)

\* KeyHandler.processPaste: the PasteEvent made from the pasted data, str being
\* its text without ANSI sequences; a paste with a detected file type carries no
\* text
PasteEventOf(fileType, str) ==
    [fileType |-> fileType, text |-> IF fileType.some THEN Undefined ELSE Some(str)]

FileTypes == {Undefined, Some("image/png")}

InputInit ==
    /\ widget = NoWidget
    /\ signals = <<>>
    /\ KeyIdle
    /\ ViewIdle
    /\ StdinIdle
    /\ text = <<>>
    /\ width_method = "unicode"
    /\ tab_width = 2
    /\ op = "none"
    /\ arg = NoArg
    /\ res = 0

\* an outcome becomes the next state of the widget
Becomes2(o) ==
    /\ widget' = o.widget
    /\ signals' = o.emits
    /\ UNCHANGED <<utf8vars, stdinvars, viewvars, keyvars>>

Live == widget.call # "none" /\ ~widget.isDestroyed

Construct ==
    \E value \in {Undefined} \cup {Some(str) : str \in Strings},
       maxLength \in {Undefined} \cup {Some(n) : n \in MaxLengths} :
        /\ widget.call = "none"
        /\ Becomes2(NewInputRenderable(value, maxLength))

CallInsertText ==
    \E str \in Strings, cursor \in 0..Len(widget.plainText) :
        /\ Live
        /\ Len(widget.plainText) + Len(str) <= MaxText
        /\ Becomes2(InsertText(widget, str, cursor, "insertText"))

CallHandlePaste ==
    \E fileType \in FileTypes, str \in Strings, cursor \in 0..Len(widget.plainText) :
        /\ Live
        /\ Len(widget.plainText) + Len(str) <= MaxText
        /\ Becomes2(HandlePaste(widget, PasteEventOf(fileType, str), cursor))

CallSetValue ==
    \E value \in Strings : Live /\ Becomes2(SetValue(widget, value))

CallSetMaxLength ==
    \E maxLength \in MaxLengths : Live /\ Becomes2(SetMaxLength(widget, maxLength))

CallDeleteCharBackward ==
    \E cursor \in 1..Len(widget.plainText) :
        Live /\ Becomes2(DeleteCharBackwardInput(widget, cursor))

CallFocus == Live /\ Becomes2(FocusInput(widget))

CallBlur == widget.call # "none" /\ Becomes2(BlurInput(widget))

CallSubmit == Live /\ Becomes2(SubmitInput(widget))

\* Renderable.destroy(): the widget is destroyed with whatever it holds
DestroyInput ==
    /\ Live
    /\ Becomes2(Outcome([widget EXCEPT !.isDestroyed = TRUE], "destroy", <<>>))

InputNext ==
    \/ Construct \/ CallInsertText \/ CallHandlePaste \/ CallSetValue \/ CallSetMaxLength
    \/ CallDeleteCharBackward \/ CallFocus \/ CallBlur \/ CallSubmit \/ DestroyInput
SpecInput == InputInit /\ [][InputNext]_vars

\* C23: the text of an InputRenderable never exceeds maxLength code units:
\* after construction and after any sequence of insertText, handlePaste, value
\* assignments and maxLength assignments, value.length <= maxLength.
C23_ValueWithinMaxLength ==
    widget.call # "none" => Len(widget.plainText) <= widget.maxLength

\* an insertion that was cut: the text is at its limit after an insertText of
\* more code units than were left
C23_Witness ==
    /\ widget.call = "insertText"
    /\ widget.maxLength = 2
    /\ Len(widget.plainText) = 2
    /\ Len(signals) = 1

\* the CHANGE events among the events in evs
Changes(evs) == SelectSeq(evs, LAMBDA e : e.type = "change")

\* one call keeps the committed value right: it is the text at construction and
\* at focus(), the value a CHANGE carries, and otherwise what it was
CommittedValueKept ==
    /\ Len(Changes(signals')) <= 1
    /\ Changes(signals') # <<>> => Changes(signals')[1].value = widget.plainText
    /\ widget'.lastCommittedValue
          = IF widget'.call \in {"constructor", "focus"} THEN widget'.plainText
            ELSE IF Changes(signals') # <<>> THEN Changes(signals')[1].value
            ELSE widget.lastCommittedValue

(***************************************************************************)
(* C29 as stated: InputRenderable emits CHANGE on blur() or submit()       *)
(* exactly when the current value differs from the last committed value    *)
(* (the value at construction, at the last focus(), or carried by the last *)
(* CHANGE), and at no other time, so two consecutive blur()/submit() calls *)
(* with no edit in between emit CHANGE at most once.                       *)
(***************************************************************************)
C29_ChangeExactlyOnCommit ==
    [][/\ CommittedValueKept
       /\ IF widget'.call \in {"blur", "submit"}
          THEN (Changes(signals') # <<>>) <=> (widget.plainText # widget.lastCommittedValue)
          ELSE Changes(signals') = <<>>]_vars

(***************************************************************************)
(* C29 amended: submit(), and blur() on an input that is not destroyed,    *)
(* emit CHANGE exactly when the current value differs from the last        *)
(* committed value (the value at construction, at the last focus(), or     *)
(* carried by the last CHANGE); blur() on a destroyed input and every      *)
(* other call emit no CHANGE.                                              *)
(***************************************************************************)
C29_ChangeOnCommitUnlessDestroyed ==
    [][/\ CommittedValueKept
       /\ IF widget'.call = "submit" \/ (widget'.call = "blur" /\ ~widget.isDestroyed)
          THEN (Changes(signals') # <<>>) <=> (widget.plainText # widget.lastCommittedValue)
          ELSE Changes(signals') = <<>>]_vars

\* a blur() that committed an edited value and emitted CHANGE with it
C29_Witness ==
    /\ widget.call = "blur"
    /\ ~widget.isDestroyed
    /\ Changes(signals) = <<InputEvent("change", widget.plainText)>>
    /\ widget.plainText # <<>>

\* C30: handlePaste completes without throwing for every PasteEvent that
\* processPaste can emit, also for a binary paste with a detected file type,
\* whose text is undefined; nothing is inserted then.
C30_HandlePasteNeverThrows ==
    widget.call = "handlePaste" => ~widget.threw

\* ---- multi-byte characters split across chunks ----

\* U+00E9, U+4E16, U+1F600
MultiByteChars == {<<195, 169>>, <<228, 184, 150>>, <<240, 159, 152, 128>>}
\* what may surround the character: nothing, "a" before, "b" or ESC after
CharPrefixes == {<<>>, <<97>>}
CharSuffixes == {<<>>, <<98>>, <<27>>}

Utf8Streams ==
    {pre \o c \o suf : pre \in CharPrefixes, c \in MultiByteChars, suf \in CharSuffixes}

Utf8StdinInit == StdinStart(Utf8Streams)

SpecStdinUtf8 == Utf8StdinInit /\ [][StdinNext]_vars

\* C25: a multi-byte UTF-8 character whose bytes arrive split across two or
\* more Buffer chunks (outside paste mode, no flush and no clear in between)
\* yields, once all its bytes have arrived, the same data events as when the
\* whole input arrives in one chunk.
C25_SplitCharacterIsOneEvent ==
    (input \in Utf8Streams /\ ~fired /\ ~cleared /\ fed = Len(input))
    => events = ProcessData(StdinBufferInit, input).events

\* number of clusters of the width method that start inside t[0..o)
ClustersBefore(t, o, method) ==
    Cardinality({x \in Range(MethodStarts(t, method)) : x < o})

(***************************************************************************)
(* C26: the grapheme_count returned by find_wrap_pos_by_width and by       *)
(* find_pos_by_width is the number of grapheme clusters of the returned    *)
(* prefix [0, byte_offset), for every width method and both values of      *)
(* include_start_before.                                                   *)
(***************************************************************************)
C26_GraphemeCountIsClustersOfPrefix ==
    op \in {"findWrapPosByWidth", "findPosByWidth"}
    => res.grapheme_count = ClustersBefore(text, res.byte_offset, width_method)

====
